---- MODULE Spec2Model ----
(***************************************************************************)
(* Model of the eMMC document ingestion pipeline:                          *)
(*   - StructureExtractor  (ingestion/structure.py)                        *)
(*   - IngestionPipeline.run page/block loop (ingestion/pipeline.py)       *)
(*   - TableChunker pre-processing and row grouping (chunkers/table.py)    *)
(***************************************************************************)
EXTENDS Integers, Sequences, FiniteSets, TLC

(***************************************************************************)
(* Bounds of the model.                                                    *)
(***************************************************************************)
MaxToc == 3
MaxLevel == 2
MaxPages == 3
MaxRows == 3
MaxCols == 2
MaxDocBlocks == 3
MaxPageBlocks == 3
MaxRawChunks == 2
MaxRerunBlocks == 2
MaxBatch == 2
MaxBatchPages == 2
MaxInlineCalls == 2
MaxInlineMatches == 2
MaxTextLen == 6
MaxBoxes == 3
MaxFigureTexts == 2

VARIABLES
    toc,              \* StructureExtractor._toc: sequence of (level, title, page)
    total_pages,      \* StructureExtractor.total_pages
    sections,         \* list[SectionNode] built by _build_sections
    body_start,       \* DocumentStructure.body_start_page
    page_to_section,  \* page -> index into sections, 0 = no entry (dict.get -> None)
    label_to_section, \* sequence of <<normalised label, section index>>, insertion order
    st_pc,            \* position inside StructureExtractor.extract
    table_rows,       \* TableBlock.rows of the table being chunked
    table_chunks,     \* result of TableChunker.chunk
    row_chunks,       \* result of TableChunker.chunk_row_groups
    tb_pc,            \* position inside the table branch (pipeline.py:298-322)
    pc,               \* position inside IngestionPipeline.run
    page_num,         \* page of the page loop (0 before the first page)
    class_section,    \* section handed to classify_page for the current page
    current_section,  \* index into sections, 0 = None
    text_accumulator, \* raw text blocks not yet chunked
    text_ctype,       \* content type of the accumulated text
    accum_page_start,
    accum_page_end,
    all_chunks,       \* chunks emitted so far, in order
    section_texts,    \* Round-1 buckets: sequence of <<section.page_start, texts>>
    nblocks,          \* blocks met so far; the next block gets id nblocks + 1
    last_ctype,       \* history: content type of the block handled last ("" = none)
    append_log,       \* history: for every appended block its id, section, type
    flush_log,        \* history: every non-empty flush handed to the text chunker
    cl_page,          \* PageModel handed to classify_page: its blocks, in arrival order
    cl_title,         \* title of the section handed to classify_page, <<>> = None
    classified,       \* list returned by classify_page
    cl_pc,            \* position of the classifier call
    sr_chunks,        \* IngestionResult.chunks, the raw chunk list
    searchable,       \* list returned by IngestionResult.searchable_chunks
    sr_pc,            \* position of the searchable_chunks call
    run,              \* 0: one run; 1, 2: first and second run on the same input
    input_log,        \* history: pages and blocks the parser gave the first run
    replay_pos,       \* next entry of input_log the second run is given
    first_chunks,     \* IngestionResult.chunks of the first run
    id_base,          \* number of chunk ids drawn before this run
    bucket_log,       \* history: for every text block met, the current section and the text
    bt_docs,          \* cli.ingest: pdfs, the sorted batch; each entry says what the file is
    bt_idx,           \* index into pdfs of the document of the for loop
    bt_pc,            \* position inside ingest and the run it calls
    bt_npages,        \* PDFParser._page_count of the open document
    fitz_open,        \* documents whose PyMuPDF handle is open
    plumber_open,     \* documents whose pdfplumber handle is open
    page_inputs,      \* history: what the back-ends gave for each page parsed
    page_models,      \* PDFParser.pages: models of the pages parsed so far
    outputs,          \* documents whose JSONL file has been written
    surfaced,         \* documents whose failure has been reported to the caller
    il_calls,         \* history: the matches of every extract_inline call of the run
    il_chunks,        \* definition chunks the extract_inline calls of the run returned
    il_pc,            \* position of the run that calls extract_inline
    ct_text,          \* text handed to _clean_text, a sequence of characters
    ct_result,        \* text returned by _clean_text
    ct_pc,            \* position of the _clean_text call
    dc_boxes,         \* raw_bboxes handed to _cluster_drawings
    dc_clusters,      \* clusters: list of groups, each a list of element boxes
    dc_result,        \* list of DrawingCluster returned
    dc_pc,            \* position inside _cluster_drawings
    ix_searchable,    \* the chunks the indexer keeps of the loaded list
    ix_pc,            \* position of the indexer's filter
    fg_cluster,       \* bbox of the drawing cluster handed to chunk_figure
    fg_texts,         \* page.text_blocks
    fg_result,        \* <<>> for None, else the one chunk returned
    fg_pc             \* position of the chunk_figure call

structVars == <<toc, total_pages, sections, body_start, page_to_section,
                label_to_section, st_pc>>

tableVars == <<table_rows, table_chunks, row_chunks, tb_pc>>

pipeVars == <<pc, page_num, class_section, current_section, text_accumulator,
              text_ctype, accum_page_start, accum_page_end, all_chunks,
              section_texts, nblocks, last_ctype, append_log, flush_log>>

classVars == <<cl_page, cl_title, classified, cl_pc>>

\* the state of the parts modelled beside structure, tables and the page loop
searchVars == <<sr_chunks, searchable, sr_pc, ix_searchable, ix_pc>>

rerunVars == <<run, input_log, replay_pos, first_chunks, id_base, bucket_log>>

\* the parts the page loop never touches
batchVars == <<bt_docs, bt_idx, bt_pc, bt_npages, fitz_open, plumber_open,
               page_inputs, page_models, outputs, surfaced>>

inlineVars == <<il_calls, il_chunks, il_pc>>

\* the functions checked on their own
cleanVars == <<ct_text, ct_result, ct_pc>>

clusterVars == <<dc_boxes, dc_clusters, dc_result, dc_pc>>

figureVars == <<fg_cluster, fg_texts, fg_result, fg_pc>>

fnVars == <<inlineVars, cleanVars, clusterVars, figureVars>>

idleVars == <<classVars, searchVars, batchVars, fnVars>>

auxVars == <<idleVars, rerunVars>>

vars == <<structVars, tableVars, pipeVars, auxVars>>

(***************************************************************************)
(* Generic helpers.                                                        *)
(***************************************************************************)
Max2(a, b) == IF a >= b THEN a ELSE b

SetMin(S) == CHOOSE x \in S : \A y \in S : x <= y

SetMax(S) == CHOOSE x \in S : \A y \in S : x >= y

\* F applied to the value of v (v is evaluated once)
Bind(v, F(_)) == CHOOSE r \in {F(x) : x \in {v}} : TRUE

SeqsUpTo(S, n) == UNION {[1..k -> S] : k \in 0..n}

(***************************************************************************)
(* Titles.  A title is a sequence of word tokens; a token of NumberTokens  *)
(* is a dotted section number ("3", "3.1").                                *)
(***************************************************************************)
NumberTokens == {"1", "2", "3", "4", "3.1"}

\* _build_path: '6.10.4' -> ['6', '6.10', '6.10.4']
_build_path(number) ==
    CASE number = ""    -> <<>>
      [] number = "3.1" -> <<"3", "3.1">>
      [] OTHER          -> <<number>>

\* _parse_section_number: (number, bare_title); ("", title) without a leading number
_parse_section_number(title) ==
    IF Len(title) > 0 /\ title[1] \in NumberTokens
    THEN [number |-> title[1], bare |-> Tail(title)]
    ELSE [number |-> "", bare |-> title]

\* str.lower() on the word tokens the model uses
LowerTok(w) ==
    CASE w = "Scope"       -> "scope"
      [] w = "Foreword"    -> "foreword"
      [] w = "Terms"       -> "terms"
      [] w = "General"     -> "general"
      [] w = "Annex"       -> "annex"
      [] w = "Normative"   -> "normative"
      [] w = "R/W"         -> "r/w"
      [] w = "RPMB"        -> "rpmb"
      [] w = "Rpmb"        -> "rpmb"
      [] w = "CMD0"        -> "cmd0"
      [] w = "Definitions" -> "definitions"
      [] OTHER             -> w

_FRONT_MATTER_KEYWORDS == {<<"cover">>, <<"contents">>, <<"figures">>, <<"tables">>,
                           <<"foreword">>, <<"introduction">>, <<"scope">>,
                           <<"normative", "references">>, <<"terms">>,
                           <<"definitions">>, <<"symbols">>, <<"abbreviations">>,
                           <<"bibliography">>}

LowerSeq(ws) == [i \in 1..Len(ws) |-> LowerTok(ws[i])]

_is_front_matter_title(title) == LowerSeq(title) \in _FRONT_MATTER_KEYWORDS

\* _normalize_label: strip, lowercase, collapse whitespace (tokens are already
\* whitespace-separated words; empty tokens vanish in the collapse)
_normalize_label(text) == LowerSeq(SelectSeq(text, LAMBDA w : w # ""))

\* SectionNode.label
NodeLabel(n) ==
    LET number == IF Len(n.path) > 0 THEN n.path[Len(n.path)] ELSE ""
    IN IF number # "" /\ Len(n.title) > 0 THEN <<number>> \o n.title ELSE n.title

(***************************************************************************)
(* StructureExtractor._build_sections                                      *)
(***************************************************************************)
\* first pass: one node per TOC entry, page_end provisional = total_pages
InitialNode(e, total) ==
    LET p == _parse_section_number(e.title)
    IN [level |-> e.level,
        title |-> IF Len(p.bare) > 0 THEN p.bare ELSE e.title,
        page_start |-> e.page,
        page_end |-> total,
        number |-> p.number,
        path |-> _build_path(p.number),
        is_front_matter |-> FALSE]

\* index of the first later node at the same or a shallower level, 0 if none
NextSiblingOrShallower(nodes, i) ==
    LET cands == {j \in (i+1)..Len(nodes) : nodes[j].level <= nodes[i].level}
    IN IF cands = {} THEN 0 ELSE SetMin(cands)

\* variant: only a strictly shallower entry ends a section
StrictlyShallowerPageEnd(nodes, i) ==
    LET cands == {j \in (i+1)..Len(nodes) : nodes[j].level < nodes[i].level}
    IN IF cands = {} THEN nodes[i].page_end
       ELSE Max2(nodes[i].page_start, nodes[SetMin(cands)].page_start - 1)

\* second pass, body of the loop at structure.py:187-192
FixedPageEnd(nodes, i) ==
    LET j == NextSiblingOrShallower(nodes, i)
    IN IF j = 0 THEN nodes[i].page_end
       ELSE Max2(nodes[i].page_start, nodes[j].page_start - 1)

_build_sections(t, total) ==
    LET nodes == [i \in 1..Len(t) |-> InitialNode(t[i], total)]
    IN [i \in 1..Len(t) |-> [nodes[i] EXCEPT !.page_end = FixedPageEnd(nodes, i)]]

(***************************************************************************)
(* StructureExtractor._find_body_start / _mark_front_matter                *)
(***************************************************************************)
_find_body_start(nodes) ==
    LET numbered == {i \in 1..Len(nodes) : nodes[i].level = 1 /\ nodes[i].number # ""}
        plain    == {i \in 1..Len(nodes) :
                        nodes[i].level = 1 /\ ~_is_front_matter_title(nodes[i].title)}
    IN IF numbered # {} THEN nodes[SetMin(numbered)].page_start
       ELSE IF plain # {} THEN nodes[SetMin(plain)].page_start
       ELSE 1

_mark_front_matter(nodes, bstart) ==
    [i \in 1..Len(nodes) |->
        [nodes[i] EXCEPT !.is_front_matter = (nodes[i].page_start < bstart)]]

(***************************************************************************)
(* StructureExtractor._build_page_map                                      *)
(***************************************************************************)
\* variant: the first page of a section is not covered
StrictCovers(n, p) == n.page_start < p /\ p <= n.page_end

Covers(n, p) == n.page_start <= p /\ p <= n.page_end

\* variant: among equal levels the earlier entry is kept
FirstStarterWins(nodes, p, best, i) ==
    IF ~Covers(nodes[i], p) THEN best
    ELSE IF best = 0 THEN i
    ELSE IF nodes[i].level > nodes[best].level THEN i
    ELSE IF nodes[i].level = nodes[best].level
            /\ nodes[i].page_start > nodes[best].page_start THEN i
    ELSE best

\* one iteration of the inner loop (structure.py:242-258): the new value of best
BestStep(nodes, p, best, i) ==
    IF ~Covers(nodes[i], p) THEN best
    ELSE IF best = 0 THEN i
    ELSE IF nodes[i].level > nodes[best].level THEN i
    ELSE IF nodes[i].level = nodes[best].level
            /\ nodes[i].page_start >= nodes[best].page_start THEN i
    ELSE best

RECURSIVE BestFrom(_, _, _, _)
BestFrom(nodes, p, best, i) ==
    IF i > Len(nodes) THEN best
    ELSE BestFrom(nodes, p, BestStep(nodes, p, best, i), i + 1)

_build_page_map(nodes, total) == [p \in 1..total |-> BestFrom(nodes, p, 0, 1)]

(***************************************************************************)
(* label map of StructureExtractor.extract (first-seen wins)               *)
(***************************************************************************)
RECURSIVE LabelMapFrom(_, _, _)
LabelMapFrom(nodes, i, acc) ==
    IF i > Len(nodes) THEN acc
    ELSE LET key == _normalize_label(NodeLabel(nodes[i]))
         IN IF \E k \in 1..Len(acc) : acc[k][1] = key
            THEN LabelMapFrom(nodes, i + 1, acc)
            ELSE LabelMapFrom(nodes, i + 1, Append(acc, <<key, i>>))

BuildLabelMap(nodes) == LabelMapFrom(nodes, 1, <<>>)

(***************************************************************************)
(* chunkers/table.py: pre-processing helpers.  A raw table is a sequence   *)
(* of rows, a row a sequence of raw cells; NoneCell stands for None.       *)
(***************************************************************************)
NoneCell == "<None>"

_MAX_TABLE_CHARS == 6000

\* _cell: None -> "", otherwise whitespace collapsed and stripped
_cell(value) ==
    CASE value = NoneCell -> ""
      [] value = "B "     -> "B"
      [] value = " "      -> ""
      [] OTHER            -> value

\* len() of a normalised cell; "x" stands for a long description cell
CellLen(c) ==
    CASE c = ""       -> 0
      [] c = "A"      -> 1
      [] c = "B"      -> 1
      [] c = "NOTE 1" -> 6
      [] c = "x"      -> 2900
      [] c = "m"      -> 2950
      [] c = "NOTE 2" -> 100
      [] c \in {"bc", "R1"}                         -> 2
      [] c \in {"CMD", "0x0"}                       -> 3
      [] c \in {"Type", "Resp", "Abbr", "Desc", "CMD0"} -> 4
      [] c \in {"INDEX", "reset"}                   -> 5
      [] c = "GO_IDLE"                              -> 7
      [] c = "Argument"                             -> 8
      [] OTHER        -> 1

\* _NOTE_ROW_RE.match: the cell begins with the word NOTE
IsNoteCell(c) == c \in {"NOTE 1", "NOTE 2"}

RECURSIVE SumSeq(_)
SumSeq(q) == IF Len(q) = 0 THEN 0 ELSE Head(q) + SumSeq(Tail(q))

NonEmptyCount(row) == Cardinality({k \in 1..Len(row) : _cell(row[k]) # ""})

ColCount(raw_rows) ==
    CHOOSE n \in {Len(raw_rows[i]) : i \in 1..Len(raw_rows)} :
        \A i \in 1..Len(raw_rows) : Len(raw_rows[i]) <= n

\* variant: the data always start at the first row
DataStartsAtTop(rows, col_count) == 0

\* _find_data_start: 0-based index of the first complete data row, 1 if there is none
_find_data_start(rows, col_count) ==
    LET min_filled == Max2(1, (col_count + 1) \div 2)
        complete == {i \in 1..Len(rows) :
                        /\ Len(rows[i]) > 0
                        /\ _cell(rows[i][1]) # ""
                        /\ NonEmptyCount(rows[i]) >= min_filled}
    IN IF complete = {} THEN 1 ELSE SetMin(complete) - 1

\* rows[a:] and rows[:b] of Python, 0-based
SliceFrom(q, a) == IF a >= Len(q) THEN <<>> ELSE SubSeq(q, a + 1, Len(q))

SliceTo(q, b) == IF b <= 0 THEN <<>> ELSE SubSeq(q, 1, IF b > Len(q) THEN Len(q) ELSE b)

\* variant: only the top row of the header zone makes the header
TopHeaderRowOnly(header_rows, col_count) ==
    [c \in 1..col_count |->
        IF Len(header_rows) > 0 /\ c <= Len(header_rows[1]) /\ _cell(header_rows[1][c]) # ""
        THEN <<_cell(header_rows[1][c])>> ELSE <<>>]

\* _merge_header_zone: per column, the non-empty header cells in row order; the
\* sequence of parts stands for the parts joined by one space
_merge_header_zone(header_rows, col_count) ==
    [c \in 1..col_count |->
        LET cellAt(r) == IF c <= Len(header_rows[r]) THEN _cell(header_rows[r][c]) ELSE ""
            idx == {r \in 1..Len(header_rows) : cellAt(r) # ""}
            RECURSIVE Parts(_)
            Parts(r) == IF r > Len(header_rows) THEN <<>>
                        ELSE IF r \in idx THEN <<cellAt(r)>> \o Parts(r + 1)
                        ELSE Parts(r + 1)
        IN Parts(1)]

\* len() of a merged header cell: its parts joined by single spaces
HeaderCellLen(parts) ==
    IF Len(parts) = 0 THEN 0
    ELSE SumSeq([k \in 1..Len(parts) |-> CellLen(parts[k])]) + (Len(parts) - 1)

IsNoteRow(row) ==
    /\ Len(row) > 0
    /\ row[1] # ""
    /\ \A k \in 2..Len(row) : row[k] = ""
    /\ IsNoteCell(row[1])

\* _extract_notes: the note rows peeled off the bottom; cutoff = rows kept
NotesCutoff(data_rows) ==
    LET stops == {i \in 1..Len(data_rows) : ~IsNoteRow(data_rows[i])}
    IN IF stops = {} THEN 0 ELSE SetMax(stops)

_extract_notes(data_rows) ==
    Bind(NotesCutoff(data_rows), LAMBDA cutoff :
        [body |-> SliceTo(data_rows, cutoff),
         notes |-> [k \in 1..(Len(data_rows) - cutoff) |-> data_rows[cutoff + k][1]]])

\* _forward_fill_key: an empty first cell inherits the nearest non-empty one above
_forward_fill_key(body) ==
    [i \in 1..Len(body) |->
        IF Len(body[i]) = 0 \/ body[i][1] # "" THEN body[i]
        ELSE LET above == {j \in 1..(i - 1) : Len(body[j]) > 0 /\ body[j][1] # ""}
             IN IF above = {} THEN body[i]
                ELSE [body[i] EXCEPT ![1] = body[SetMax(above)][1]]]

\* _preprocess_table
_preprocess_table(raw_rows) ==
    IF Len(raw_rows) = 0 THEN [header |-> <<>>, body |-> <<>>, notes |-> <<>>]
    ELSE
    Bind(ColCount(raw_rows), LAMBDA col_count :
    Bind(_find_data_start(raw_rows, col_count), LAMBDA data_start :
    Bind(SliceFrom(raw_rows, data_start), LAMBDA raw_body :
    Bind([i \in 1..Len(raw_body) |->
            [k \in 1..col_count |->
                IF k <= Len(raw_body[i]) THEN _cell(raw_body[i][k]) ELSE ""]],
         LAMBDA cleaned_body :
    Bind(_extract_notes(cleaned_body), LAMBDA en :
        [header |-> _merge_header_zone(SliceTo(raw_rows, data_start), col_count),
         body |-> _forward_fill_key(en.body),
         notes |-> en.notes])))))

(***************************************************************************)
(* chunkers/table.py: Markdown serialisation.  A Markdown table is kept as *)
(* its header, its data row lines and its notes, with len() computed from  *)
(* the text the code builds.                                               *)
(***************************************************************************)
\* len("| " + " | ".join(cells) + " |") given the cells' lengths
RowLineLen(lens) == 4 + SumSeq(lens) + 3 * (Len(lens) - 1)

HeaderLineLen(header) ==
    RowLineLen([k \in 1..Len(header) |-> HeaderCellLen(header[k])])

SeparatorLineLen(header) ==
    RowLineLen([k \in 1..Len(header) |-> Max2(HeaderCellLen(header[k]), 3)])

BodyLineLen(row) == RowLineLen([k \in 1..Len(row) |-> CellLen(row[k])])

\* len of "\n\n**Notes:**\n" + the notes joined by "\n"
NotesLen(notes) ==
    IF Len(notes) = 0 THEN 0
    ELSE 13 + SumSeq([k \in 1..Len(notes) |-> CellLen(notes[k])]) + (Len(notes) - 1)

\* row[:col_count] + [""] * (col_count - len(row))
PadRow(row, col_count) ==
    [k \in 1..col_count |-> IF k <= Len(row) THEN row[k] ELSE ""]

\* len() of header line, separator line and body lines joined by "\n", plus notes
MarkdownLen(header, rows, notes) ==
    HeaderLineLen(header) + 1 + SeparatorLineLen(header)
    + SumSeq([i \in 1..Len(rows) |-> 1 + BodyLineLen(rows[i])])
    + NotesLen(notes)

\* _rows_to_markdown
_rows_to_markdown(raw_rows) ==
    Bind(_preprocess_table(raw_rows), LAMBDA pp :
       IF Len(pp.header) = 0
       THEN [empty |-> TRUE, header |-> <<>>, rows |-> <<>>, notes |-> <<>>, len |-> 0]
       ELSE [empty |-> FALSE, header |-> pp.header, rows |-> pp.body, notes |-> pp.notes,
             len |-> MarkdownLen(pp.header, pp.body, pp.notes)])

\* len(prefix) of _make_prefix without a caption: "[eMMC 5.1 | (front matter) | Page 1]\n\n"
PrefixLen == 38

\* TableChunker._make_chunk: a full-table chunk
MakeTableChunk(header, rows, notes, chunk_index, direct) ==
    [content_type |-> "table", is_row_chunk |-> FALSE, chunk_index |-> chunk_index,
     header |-> header, rows |-> rows, notes |-> notes,
     raw_len |-> MarkdownLen(header, rows, notes), direct |-> direct, key |-> ""]

\* TableChunker._split_large_table: the loop over the body rows
RECURSIVE SplitRows(_, _, _, _, _)
SplitRows(header, body, i, current_body, chunks) ==
    IF i > Len(body)
    THEN [chunks |-> chunks, current_body |-> current_body]
    ELSE LET cur == Append(current_body, body[i])
             \* header_md + separator_md + _body_md(cur): every line ends with "\n"
             trial == HeaderLineLen(header) + 1 + SeparatorLineLen(header) + 1
                      + SumSeq([k \in 1..Len(cur) |-> BodyLineLen(cur[k]) + 1])
         IN IF PrefixLen + trial > _MAX_TABLE_CHARS /\ Len(cur) > 1
            THEN SplitRows(header, body, i + 1, <<body[i]>>,
                           Append(chunks,
                                  MakeTableChunk(header, current_body, <<>>,
                                                 Len(chunks), FALSE)))
            ELSE SplitRows(header, body, i + 1, cur, chunks)

_split_large_table(raw_rows) ==
    Bind(_preprocess_table(raw_rows), LAMBDA pp :
       IF Len(pp.header) = 0 THEN <<>>
       ELSE Bind(SplitRows(pp.header, pp.body, 1, <<>>, <<>>), LAMBDA r :
               IF Len(r.current_body) > 0
               THEN Append(r.chunks,
                           MakeTableChunk(pp.header, r.current_body, pp.notes,
                                          Len(r.chunks), FALSE))
               ELSE r.chunks))

\* TableChunker.chunk
TableChunk(raw_rows) ==
    IF Len(raw_rows) = 0 THEN <<>>
    ELSE Bind(_rows_to_markdown(raw_rows), LAMBDA md :
            IF md.empty THEN <<>>
            ELSE IF PrefixLen + md.len <= _MAX_TABLE_CHARS
            THEN << MakeTableChunk(md.header, md.rows, md.notes, 0, TRUE) >>
            ELSE _split_large_table(raw_rows))

\* variant: one entry per row, a key entered again each time it recurs
KeyPerRow(body, i, order) ==
    [k \in 1..Len(body) |-> IF Len(body[k]) > 0 THEN body[k][1] ELSE ""]

\* the keys of the body rows in order of first appearance (the list `order`)
RECURSIVE KeyOrder(_, _, _)
KeyOrder(body, i, order) ==
    IF i > Len(body) THEN order
    ELSE LET key == IF Len(body[i]) > 0 THEN body[i][1] ELSE ""
         IN IF \E k \in 1..Len(order) : order[k] = key
            THEN KeyOrder(body, i + 1, order)
            ELSE KeyOrder(body, i + 1, Append(order, key))

RowKey(row) == IF Len(row) > 0 THEN row[1] ELSE ""

\* variant: a group keeps only the first row of its key
FirstRowOfKey(body, key) ==
    LET first == SetMin({i \in 1..Len(body) : RowKey(body[i]) = key})
    IN << body[first] >>

\* groups[key]: the body rows with that key, in table order
GroupRows(body, key) == SelectSeq(body, LAMBDA row : RowKey(row) = key)

\* header[0].lower() contains "bit", "index", "byte" or "offset"
IsRegTable(header) ==
    Len(header) > 0 /\ \E k \in 1..Len(header[1]) :
        header[1][k] \in {"Bit", "Index", "Byte", "Offset"}

\* TableChunker.chunk_row_groups
ChunkRowGroups(raw_rows) ==
    IF Len(raw_rows) = 0 THEN <<>>
    ELSE Bind(_preprocess_table(raw_rows), LAMBDA pp :
            IF Len(pp.header) = 0 \/ Len(pp.body) = 0 THEN <<>>
            ELSE Bind(KeyOrder(pp.body, 1, <<>>), LAMBDA order :
                 [g \in 1..Len(order) |->
                    Bind(GroupRows(pp.body, order[g]), LAMBDA group_rows :
                    Bind([k \in 1..Len(group_rows) |->
                             PadRow(group_rows[k], Len(pp.header))], LAMBDA rows :
                    Bind(IF g = Len(order) THEN pp.notes ELSE <<>>, LAMBDA notes :
                       [content_type |-> "table", is_row_chunk |-> TRUE,
                        chunk_index |-> g - 1, header |-> pp.header,
                        rows |-> rows, notes |-> notes,
                        \* "**Register Context: Register**\n\n" precedes a register table
                        raw_len |-> MarkdownLen(pp.header, rows, notes)
                                    + (IF IsRegTable(pp.header) THEN 32 ELSE 0),
                        direct |-> FALSE, key |-> order[g]])))]))

(***************************************************************************)
(* StructureExtractor.extract as a sequence of steps                       *)
(***************************************************************************)
\* Shapes of the generated tables of contents: any levels, any order of pages; the
\* titles are an optional unnumbered front-matter heading followed by numbered
\* headings.  PDFParser.toc adds 1 to the page number of each bookmark
\* (parser.py:374-378), so an entry may name the page after the last one.
TocShapes(total) == [level : 1..MaxLevel, page : 1..(total + 1)]

TitleAt(i, front_first) ==
    IF front_first /\ i = 1 THEN <<"Foreword">> ELSE <<"1", "Scope">>

TocOf(shape, front_first) ==
    [i \in 1..Len(shape) |->
        [level |-> shape[i].level, title |-> TitleAt(i, front_first),
         page |-> shape[i].page]]

\* the table of contents of the tie-break scenario (structure.py:233-234)
ExampleToc ==
    << [level |-> 1, title |-> <<"1", "Scope">>, page |-> 22],
       [level |-> 1, title |-> <<"2", "Normative", "references">>, page |-> 22],
       [level |-> 1, title |-> <<"3", "Terms", "and", "definitions">>, page |-> 22],
       [level |-> 1, title |-> <<"4", "General">>, page |-> 23] >>

\* classify_page is not being called
ClassIdle ==
    /\ cl_page = <<>>
    /\ cl_title = <<>>
    /\ classified = <<>>
    /\ cl_pc = "idle"

\* searchable_chunks is not being called
SearchIdle ==
    /\ sr_chunks = <<>>
    /\ searchable = <<>>
    /\ sr_pc = "idle"
    /\ ix_searchable = <<>>
    /\ ix_pc = "idle"

\* a single run: nothing is recorded for a second one
RerunIdle ==
    /\ run = 0
    /\ input_log = <<>>
    /\ replay_pos = 1
    /\ first_chunks = <<>>
    /\ id_base = 0
    /\ bucket_log = <<>>

\* no batch is being ingested
BatchIdle ==
    /\ bt_docs = <<>>
    /\ bt_idx = 0
    /\ bt_pc = "idle"
    /\ bt_npages = 0
    /\ fitz_open = {}
    /\ plumber_open = {}
    /\ page_inputs = <<>>
    /\ page_models = <<>>
    /\ outputs = {}
    /\ surfaced = {}

\* extract_inline is not being called
InlineIdle ==
    /\ il_calls = <<>>
    /\ il_chunks = <<>>
    /\ il_pc = "idle"

\* _clean_text is not being called
CleanIdle ==
    /\ ct_text = <<>>
    /\ ct_result = <<>>
    /\ ct_pc = "idle"

\* _cluster_drawings is not being called
ClusterIdle ==
    /\ dc_boxes = <<>>
    /\ dc_clusters = <<>>
    /\ dc_result = <<>>
    /\ dc_pc = "idle"

\* chunk_figure is not being called
FigureIdle ==
    /\ fg_cluster = <<>>
    /\ fg_texts = <<>>
    /\ fg_result = <<>>
    /\ fg_pc = "idle"

FnIdle == InlineIdle /\ CleanIdle /\ ClusterIdle /\ FigureIdle

AuxIdle == ClassIdle /\ SearchIdle /\ RerunIdle /\ BatchIdle /\ FnIdle

\* the table part is not running
TableIdle ==
    /\ table_rows = <<>>
    /\ table_chunks = <<>>
    /\ row_chunks = <<>>
    /\ tb_pc = "idle"

\* no pipeline run is in progress
PipeIdle ==
    /\ pc = "idle"
    /\ page_num = 0
    /\ class_section = 0
    /\ current_section = 0
    /\ text_accumulator = <<>>
    /\ text_ctype = "text"
    /\ accum_page_start = 1
    /\ accum_page_end = 1
    /\ all_chunks = <<>>
    /\ section_texts = <<>>
    /\ nblocks = 0
    /\ last_ctype = ""
    /\ append_log = <<>>
    /\ flush_log = <<>>

StructInit ==
    /\ \/ /\ total_pages \in 1..MaxPages
          /\ \E shape \in SeqsUpTo(TocShapes(total_pages), MaxToc), ff \in BOOLEAN :
                toc = TocOf(shape, ff)
       \/ /\ toc = ExampleToc
          /\ total_pages = ExampleToc[Len(ExampleToc)].page
    /\ sections = <<>>
    /\ body_start = 0
    /\ page_to_section = <<>>
    /\ label_to_section = <<>>
    /\ st_pc = "build_sections"
    /\ TableIdle
    /\ PipeIdle
    /\ AuxIdle

BuildSections ==
    /\ st_pc = "build_sections"
    /\ sections' = _build_sections(toc, total_pages)
    /\ st_pc' = "front_matter"
    /\ UNCHANGED <<auxVars, toc, total_pages, body_start, page_to_section, label_to_section, tableVars, pipeVars>>

MarkFrontMatter ==
    /\ st_pc = "front_matter"
    /\ body_start' = _find_body_start(sections)
    /\ sections' = _mark_front_matter(sections, body_start')
    /\ st_pc' = "page_map"
    /\ UNCHANGED <<auxVars, toc, total_pages, page_to_section, label_to_section, tableVars, pipeVars>>

BuildPageMap ==
    /\ st_pc = "page_map"
    /\ page_to_section' = _build_page_map(sections, total_pages)
    /\ label_to_section' = BuildLabelMap(sections)
    /\ st_pc' = "extracted"
    /\ UNCHANGED <<auxVars, toc, total_pages, sections, body_start, tableVars, pipeVars>>

StructNext == BuildSections \/ MarkFrontMatter \/ BuildPageMap

SpecStructure == StructInit /\ [][StructNext]_vars

(***************************************************************************)
(* The table branch of the page loop on one table: chunk(), then           *)
(* chunk_row_groups() when chunk() returned something.                     *)
(***************************************************************************)
KeyCells == {NoneCell, "A", "B ", "NOTE 1"}

OtherCells == {NoneCell, "x"}

TableRowsOf(ncols) ==
    {r \in [1..ncols -> KeyCells \cup OtherCells] :
        r[1] \in KeyCells /\ \A k \in 2..ncols : r[k] \in OtherCells}

\* the command table whose header cell "CMD\nINDEX" was split over three rows
\* (table.py:67-73)
ExampleTable ==
    << <<"CMD", "", "", "", "", "">>,
       <<NoneCell, "Type", "Argument", "Resp", "Abbr", "Desc">>,
       <<"INDEX", NoneCell, NoneCell, NoneCell, NoneCell, NoneCell>>,
       <<"CMD0", "bc", "0x0", "R1", "GO_IDLE", "reset">> >>

\* two long rows that fit the budget together, and a long note under them
NotedTable == << <<"A", "m">>, <<"B ", "m">>, <<"NOTE 2", NoneCell>> >>

StructIdle ==
    /\ toc = <<>>
    /\ total_pages = 0
    /\ sections = <<>>
    /\ body_start = 0
    /\ page_to_section = <<>>
    /\ label_to_section = <<>>
    /\ st_pc = "idle"

TableInit ==
    /\ \/ \E ncols \in 1..MaxCols : table_rows \in SeqsUpTo(TableRowsOf(ncols), MaxRows)
       \/ table_rows = ExampleTable
       \/ table_rows = NotedTable
    /\ table_chunks = <<>>
    /\ row_chunks = <<>>
    /\ tb_pc = "chunk"
    /\ StructIdle
    /\ PipeIdle
    /\ AuxIdle

ChunkTable ==
    /\ tb_pc = "chunk"
    /\ table_chunks' = TableChunk(table_rows)
    /\ tb_pc' = IF Len(table_chunks') > 0 THEN "row_groups" ELSE "done"
    /\ UNCHANGED <<auxVars, table_rows, row_chunks, structVars, pipeVars>>

ChunkTableRowGroups ==
    /\ tb_pc = "row_groups"
    /\ row_chunks' = ChunkRowGroups(table_rows)
    /\ tb_pc' = "done"
    /\ UNCHANGED <<auxVars, table_rows, table_chunks, structVars, pipeVars>>

TableNext == ChunkTable \/ ChunkTableRowGroups

SpecTable == TableInit /\ [][TableNext]_vars

(***************************************************************************)
(* classifier.py: the content type of a text block.                        *)
(***************************************************************************)
\* a word of a title that contains one of _DEFINITION_SECTION_KEYWORDS
HasDefinitionKeyword(w) ==
    w \in {"definition", "definitions", "abbreviation", "abbreviations", "glossary",
           "terms", "acronym", "acronyms"}

\* any(kw in title_lower for kw in _DEFINITION_SECTION_KEYWORDS)
TitleHasDefinitionKeyword(title) ==
    \E k \in 1..Len(title) : HasDefinitionKeyword(LowerTok(title[k]))

\* BlockClassifier._is_definition_section
ClassifierIsDefinitionSection(sec) ==
    IF sec = 0 THEN FALSE
    ELSE TitleHasDefinitionKeyword(sections[sec].title)

\* _BIT_RANGE_RE.search(text) and a register keyword in text.lower()
IsRegisterText(text) ==
    /\ \E k \in 1..Len(text) : text[k] \in {"[7:4]", "[0]"}
    /\ \E k \in 1..Len(text) : LowerTok(text[k]) \in {"r/w", "reserved", "otp"}

\* BlockClassifier._classify_text_block
_classify_text_block(text, is_definition_section) ==
    IF is_definition_section THEN "definition"
    ELSE IF IsRegisterText(text) THEN "register"
    ELSE "text"

(***************************************************************************)
(* chunkers/text.py: TextChunker.chunk_section on the accumulated blocks.  *)
(***************************************************************************)
_CHUNK_CHARS == 2800

_CHUNK_OVERLAP == 400

\* len() of the text blocks the model uses
TextLen(text) ==
    IF text = <<"para">> THEN 1500
    ELSE SumSeq([k \in 1..Len(text) |-> 5]) + (Len(text) - 1)

\* len("\n".join(texts))
JoinedLen(blocks) ==
    IF Len(blocks) = 0 THEN 0
    ELSE SumSeq([k \in 1..Len(blocks) |-> TextLen(blocks[k].text)]) + (Len(blocks) - 1)

\* RecursiveCharacterTextSplitter.split_text on blocks joined by "\n", every
\* block shorter than the chunk size: the lines are merged greedily up to
\* _CHUNK_CHARS, the tail of a piece up to _CHUNK_OVERLAP opening the next one
RECURSIVE DropForOverlap(_, _)
DropForOverlap(current, nextLen) ==
    IF Len(current) = 0 THEN current
    ELSE IF JoinedLen(current) > _CHUNK_OVERLAP
            \/ JoinedLen(current) + nextLen + 1 > _CHUNK_CHARS
         THEN DropForOverlap(Tail(current), nextLen)
         ELSE current

RECURSIVE MergeSplits(_, _, _, _)
MergeSplits(blocks, i, current, pieces) ==
    IF i > Len(blocks)
    THEN IF Len(current) > 0 THEN Append(pieces, current) ELSE pieces
    ELSE LET L == TextLen(blocks[i].text)
             sep == IF Len(current) > 0 THEN 1 ELSE 0
         IN IF JoinedLen(current) + L + sep > _CHUNK_CHARS /\ Len(current) > 0
            THEN MergeSplits(blocks, i + 1,
                             Append(DropForOverlap(current, L), blocks[i]),
                             Append(pieces, current))
            ELSE MergeSplits(blocks, i + 1, Append(current, blocks[i]), pieces)

SplitText(blocks) ==
    IF JoinedLen(blocks) <= _CHUNK_CHARS THEN <<blocks>>
    ELSE MergeSplits(blocks, 1, <<>>, <<>>)

SectionIsFrontMatter(sec) == IF sec = 0 THEN TRUE ELSE sections[sec].is_front_matter

\* an EMMCChunk as the pipeline sees it
MkChunk(ctype, sec, ps, pe, idx, raw_len, blocks, extra) ==
    [content_type |-> ctype, section |-> sec, page_start |-> ps, page_end |-> pe,
     is_front_matter |-> SectionIsFrontMatter(sec), chunk_index |-> idx,
     raw_len |-> raw_len,
     blocks |-> blocks,              \* ids of the text blocks the chunk was made from
     src |-> extra.src,              \* id of the table, figure or image block, else 0
     is_row_chunk |-> extra.is_row_chunk,
     parent_chunk_id |-> extra.parent_chunk_id,
     chunk_id |-> extra.chunk_id,
     rows |-> extra.rows,
     term |-> extra.term]

NoExtra(id, src) == [is_row_chunk |-> FALSE, parent_chunk_id |-> 0, chunk_id |-> id,
                     rows |-> <<>>, term |-> <<>>, src |-> src]

BlockIds(blocks) == [k \in 1..Len(blocks) |-> blocks[k].id]

\* TextChunker.chunk_section; first_id is the chunk id of the first chunk made
chunk_section(blocks, sec, ps, pe, ctype, first_id) ==
    IF ctype = "register" /\ JoinedLen(blocks) <= (_CHUNK_CHARS * 3) \div 2
    THEN << MkChunk(ctype, sec, ps, pe, 0, JoinedLen(blocks), BlockIds(blocks),
                    NoExtra(first_id, 0)) >>
    ELSE LET pieces == SplitText(blocks)
         IN [k \in 1..Len(pieces) |->
               MkChunk(ctype, sec, ps, pe, k - 1, JoinedLen(pieces[k]),
                       BlockIds(pieces[k]), NoExtra(first_id + k - 1, 0))]

(***************************************************************************)
(* pipeline.py: IngestionPipeline.run.  The loop state is kept in a record *)
(* while one page start or one block is handled.                           *)
(***************************************************************************)
\* the chunk_id a new EMMCChunk draws (uuid4): never drawn before, here the
\* ordinal of the chunk among all chunks made so far, earlier runs included
NewId(position) == id_base + position

\* the pages and blocks come from the parser: a first run records what it is
\* given, a second run on the same input is given the same again
Track(event) ==
    IF run = 1
    THEN /\ input_log' = Append(input_log, event)
         /\ UNCHANGED <<run, replay_pos, first_chunks, id_base>>
    ELSE IF run = 2
    THEN /\ replay_pos <= Len(input_log)
         /\ input_log[replay_pos] = event
         /\ replay_pos' = replay_pos + 1
         /\ UNCHANGED <<run, input_log, first_chunks, id_base>>
    ELSE UNCHANGED <<run, input_log, replay_pos, first_chunks, id_base>>

\* blocks a document may hold
BlockBudget == IF run = 0 THEN MaxDocBlocks ELSE MaxRerunBlocks

LoopState ==
    [acc |-> text_accumulator, ctype |-> text_ctype, cur |-> current_section,
     aps |-> accum_page_start, ape |-> accum_page_end, chunks |-> all_chunks,
     flog |-> flush_log]

\* _flush_text
_flush_text(st) ==
    IF Len(st.acc) = 0 THEN st
    ELSE [st EXCEPT
            !.chunks = st.chunks \o chunk_section(st.acc, st.cur, st.aps, st.ape,
                                                  st.ctype, NewId(Len(st.chunks) + 1)),
            !.acc = <<>>,
            !.flog = Append(st.flog, [blocks |-> BlockIds(st.acc), section |-> st.cur,
                                      ctype |-> st.ctype, at |-> Len(st.chunks)])]

\* variant: no flush
KeepAccumulator(st) == st

\* the flush before a TABLE, FIGURE or BITMAP block is routed
\* (pipeline.py:299, 325, 340)
FlushBeforeBlock(st) == _flush_text(st)

\* variant: every page start is taken as a section change
AlwaysDiffers(page_toc_section, cur) == TRUE

\* pipeline.py:231: page_toc_section is not current_section
SectionDiffers(page_toc_section, cur) == page_toc_section # cur

\* variant: the section is switched with the accumulator kept
SwitchWithoutFlush(st, page_toc_section) ==
    IF SectionDiffers(page_toc_section, st.cur)
    THEN [st EXCEPT !.cur = page_toc_section]
    ELSE st

\* page-level section boundary (pipeline.py:231-234)
PageBoundary(st, page_toc_section) ==
    IF SectionDiffers(page_toc_section, st.cur)
    THEN [_flush_text(st) EXCEPT !.cur = page_toc_section]
    ELSE st

\* structure.label_to_section.get(norm), then the prefix fallback
\* (pipeline.py:252-265); 0 = no hit
IsProperPrefix(label, norm) ==
    /\ Len(norm) > Len(label)
    /\ SubSeq(norm, 1, Len(label)) = label

HitSection(text) ==
    LET norm == _normalize_label(text)
        exact == {k \in 1..Len(label_to_section) : label_to_section[k][1] = norm}
        prefix == {k \in 1..Len(label_to_section) :
                      IsProperPrefix(label_to_section[k][1], norm)}
    IN IF exact # {} THEN label_to_section[SetMin(exact)][2]
       ELSE IF prefix # {} THEN label_to_section[SetMin(prefix)][2]
       ELSE 0

\* sub-page section detection (pipeline.py:251-272)
SubPageDetect(st, text, ctype, page) ==
    IF ctype # "text" THEN st
    ELSE LET hit == HitSection(text)
         IN IF hit # 0 /\ hit # st.cur
            THEN [_flush_text(st) EXCEPT !.cur = hit, !.aps = page]
            ELSE st

\* section_texts.setdefault(current_section.page_start, []).append(text)
BucketAppend(buckets, sec, text) ==
    IF sec = 0 \/ sections[sec].is_front_matter THEN buckets
    ELSE LET key == sections[sec].page_start
             at == {k \in 1..Len(buckets) : buckets[k][1] = key}
         IN IF at = {} THEN Append(buckets, <<key, <<text>> >>)
            ELSE [buckets EXCEPT ![SetMin(at)] = <<key, Append(buckets[SetMin(at)][2], text)>>]

\* variant: a block of the other content type joins the accumulator
AppendWithoutTypeFlush(st, block, ctype, page) ==
    LET s1 == st
    IN [s1 EXCEPT !.ctype = ctype,
                  !.aps = IF Len(s1.acc) = 0 THEN page ELSE s1.aps,
                  !.acc = Append(s1.acc, block),
                  !.ape = page]

\* routing of a TEXT or REGISTER block (pipeline.py:286-296)
AppendText(st, block, ctype, page) ==
    Bind(IF Len(st.acc) > 0 /\ ctype # st.ctype THEN _flush_text(st) ELSE st,
         LAMBDA s1 :
            [s1 EXCEPT !.ctype = ctype,
                       !.aps = IF Len(s1.acc) = 0 THEN page ELSE s1.aps,
                       !.acc = Append(s1.acc, block),
                       !.ape = page])

\* the loop state written back to the variables
Commit(st) ==
    /\ text_accumulator' = st.acc
    /\ text_ctype' = st.ctype
    /\ current_section' = st.cur
    /\ accum_page_start' = st.aps
    /\ accum_page_end' = st.ape
    /\ all_chunks' = st.chunks
    /\ flush_log' = st.flog

\* the documents the pipeline is run on: (table of contents, page count)
PipeDocs ==
    { [toc |-> << [level |-> 1, title |-> <<"Foreword">>, page |-> 1],
                  [level |-> 1, title |-> <<"1", "Scope">>, page |-> 2],
                  [level |-> 1, title |-> <<"2", "General">>, page |-> 2],
                  [level |-> 1, title |-> <<"3", "Terms">>, page |-> 3] >>,
       pages |-> 3],
      [toc |-> << [level |-> 1, title |-> <<"1", "Scope">>, page |-> 2],
                  [level |-> 2, title |-> <<"3.1", "General">>, page |-> 3] >>,
       pages |-> 3] }

\* the text blocks a page may hold
PageTexts ==
    { <<"para">>,
      <<"1", "Scope">>,
      <<"3", "Terms">>,
      <<"3.1", "General", "para">>,
      <<"[7:4]", "R/W">>,
      <<"ACMD:", "Application", "command">> }

\* a small table with the key column A, B, A
PageTable == << <<"A", "x">>, <<"B ", NoneCell>>, <<"A", NoneCell>> >>

\* a table too long for one chunk, its second row a continuation of the first
BigTable == << <<"A", "x">>, <<NoneCell, "x">>, <<"B ", "x">> >>

\* the tables a page may hold (parser.py:553-574: at least one row, no blank row)
PageTables == {PageTable, BigTable}

\* the start of run on one of the documents, up to the state of a second run
RunStart(docs) ==
    /\ \E d \in docs : toc = d.toc /\ total_pages = d.pages
    /\ sections = <<>>
    /\ body_start = 0
    /\ page_to_section = <<>>
    /\ label_to_section = <<>>
    /\ st_pc = "build_sections"
    /\ TableIdle
    /\ ClassIdle
    /\ SearchIdle
    /\ BatchIdle
    /\ FnIdle
    /\ pc = "loop"
    /\ page_num = 0
    /\ class_section = 0
    /\ current_section = 0
    /\ text_accumulator = <<>>
    /\ text_ctype = "text"
    /\ accum_page_start = 1
    /\ accum_page_end = 1
    /\ all_chunks = <<>>
    /\ section_texts = <<>>
    /\ nblocks = 0
    /\ last_ctype = ""
    /\ append_log = <<>>
    /\ flush_log = <<>>

Init == RunStart(PipeDocs) /\ RerunIdle

InLoop == st_pc = "extracted" /\ pc = "loop"

\* top of the page loop up to classify_page (pipeline.py:218-240)
StartPage ==
    /\ InLoop
    /\ page_num < total_pages
    /\ page_num' = page_num + 1
    /\ \E st \in {PageBoundary(LoopState, page_to_section[page_num'])} :
          /\ Commit(st)
          /\ class_section' = st.cur
    /\ Track(<<"page">>)
    /\ UNCHANGED <<idleVars, bucket_log, pc, section_texts, nblocks, last_ctype, append_log, structVars,
                   tableVars>>

\* one text block of the page (pipeline.py:251-296, 354-356)
ProcessTextBlock ==
    /\ InLoop
    /\ page_num >= 1
    /\ nblocks < BlockBudget
    /\ \E text \in PageTexts :
         \E ctype \in {_classify_text_block(text,
                                ClassifierIsDefinitionSection(class_section))},
            block \in {[id |-> nblocks + 1, text |-> text, page |-> page_num]} :
         \E s1 \in {SubPageDetect(LoopState, text, ctype, page_num)} :
         \E s2 \in {IF ctype \in {"text", "register"}
                    THEN AppendText(s1, block, ctype, page_num)
                    ELSE s1} :
            /\ Commit(s2)
            /\ Track(<<"text", text>>)
            /\ bucket_log' = IF run = 0 THEN bucket_log
                             ELSE Append(bucket_log, [section |-> s1.cur, text |-> text])
            /\ last_ctype' = ctype
            /\ section_texts' = BucketAppend(section_texts, s1.cur, text)
            /\ append_log' = IF ctype \in {"text", "register"}
                             THEN Append(append_log,
                                         [id |-> block.id, section |-> s1.cur,
                                          ctype |-> ctype, page |-> page_num])
                             ELSE append_log
    /\ nblocks' = nblocks + 1
    /\ UNCHANGED <<idleVars, pc, page_num, class_section, structVars, tableVars>>

\* the chunks of one table block: chunk(), then chunk_row_groups() with the id
\* of the first full-table chunk as parent (pipeline.py:300-322)
TableBlockChunks(raw_rows, sec, page, first_id, src) ==
    Bind(TableChunk(raw_rows), LAMBDA full :
    Bind(IF Len(full) > 0 THEN ChunkRowGroups(raw_rows) ELSE <<>>, LAMBDA groups :
       [k \in 1..(Len(full) + Len(groups)) |->
          IF k <= Len(full)
          THEN MkChunk("table", sec, page, page, full[k].chunk_index, full[k].raw_len, <<>>,
                       [is_row_chunk |-> FALSE, parent_chunk_id |-> 0,
                        chunk_id |-> first_id + k - 1, rows |-> full[k].rows,
                        term |-> <<>>, src |-> src])
          ELSE LET g == groups[k - Len(full)]
               IN MkChunk("table", sec, page, page, g.chunk_index, g.raw_len, <<>>,
                          [is_row_chunk |-> TRUE, parent_chunk_id |-> first_id,
                           chunk_id |-> first_id + k - 1, rows |-> g.rows,
                           term |-> <<>>, src |-> src])]))

\* one table block of the page (pipeline.py:298-322)
ProcessTableBlock ==
    /\ InLoop
    /\ page_num >= 1
    /\ nblocks < BlockBudget
    /\ \E s1 \in {FlushBeforeBlock(LoopState)} :
       \E tbl \in PageTables :
       \E new \in {TableBlockChunks(tbl, s1.cur, page_num, NewId(Len(s1.chunks) + 1),
                                     nblocks + 1)} :
       \E s2 \in {[s1 EXCEPT !.chunks = s1.chunks \o new]} :
          /\ Commit(s2)
          /\ Track(<<"table", tbl>>)
    /\ last_ctype' = "table"
    /\ nblocks' = nblocks + 1
    /\ UNCHANGED <<idleVars, bucket_log, pc, page_num, class_section, section_texts,
                   append_log,
                   structVars, tableVars>>

\* FigureChunker.chunk_figure / chunk_bitmap: one chunk, or None when the block
\* has neither a caption nor enclosed text
FigureChunks(kind, has_content, sec, page, id, src) ==
    IF has_content
    THEN << MkChunk(kind, sec, page, page, 0, 40, <<>>, NoExtra(id, src)) >>
    ELSE <<>>

\* one drawing cluster of the page (pipeline.py:324-337)
ProcessFigureBlock ==
    /\ InLoop
    /\ page_num >= 1
    /\ nblocks < BlockBudget
    /\ \E has_content \in BOOLEAN :
         \E s1 \in {FlushBeforeBlock(LoopState)} :
         \E s2 \in {[s1 EXCEPT !.chunks = s1.chunks \o
                        FigureChunks("figure", has_content, s1.cur, page_num,
                                     NewId(Len(s1.chunks) + 1), nblocks + 1)]} :
            /\ Commit(s2)
            /\ Track(<<"figure", has_content>>)
    /\ last_ctype' = "figure"
    /\ nblocks' = nblocks + 1
    /\ UNCHANGED <<idleVars, bucket_log, pc, page_num, class_section, section_texts,
                   append_log,
                   structVars, tableVars>>

\* one raster image of the page (pipeline.py:339-352)
ProcessBitmapBlock ==
    /\ InLoop
    /\ page_num >= 1
    /\ nblocks < BlockBudget
    /\ \E has_content \in BOOLEAN :
         \E s1 \in {FlushBeforeBlock(LoopState)} :
         \E s2 \in {[s1 EXCEPT !.chunks = s1.chunks \o
                        FigureChunks("bitmap", has_content, s1.cur, page_num,
                                     NewId(Len(s1.chunks) + 1), nblocks + 1)]} :
            /\ Commit(s2)
            /\ Track(<<"bitmap", has_content>>)
    /\ last_ctype' = "bitmap"
    /\ nblocks' = nblocks + 1
    /\ UNCHANGED <<idleVars, bucket_log, pc, page_num, class_section, section_texts,
                   append_log,
                   structVars, tableVars>>

\* definition.py: _is_definition_section (exact title)
_DEFINITION_SECTION_TITLES ==
    {<<"definition">>, <<"abbreviation">>, <<"glossary">>, <<"terms">>,
     <<"terms", "and", "definitions">>, <<"symbols", "and", "abbreviations">>,
     <<"acronyms">>}

ChunkerIsDefinitionSection(title) == LowerSeq(title) \in _DEFINITION_SECTION_TITLES

\* _ABBREV_RE on one line: an upper-case term, a colon or dash, the definition
IsAbbrevLine(text) == Len(text) >= 2 /\ text[1] \in {"ACMD:", "CMD:"}

\* DefinitionChunker.extract_from_section on the bucket of one section
extract_from_section(texts, sec, first_id) ==
    IF ~ChunkerIsDefinitionSection(sections[sec].title) THEN <<>>
    ELSE LET lines == SelectSeq(texts, IsAbbrevLine)
         IN [k \in 1..Len(lines) |->
               MkChunk("definition", sec, sections[sec].page_start,
                       sections[sec].page_end, k - 1, TextLen(lines[k]), <<>>,
                       [is_row_chunk |-> FALSE, parent_chunk_id |-> 0,
                        chunk_id |-> first_id + k - 1, rows |-> <<>>,
                        term |-> <<lines[k][1]>>, src |-> 0])]

\* section_texts.get(section.page_start, [])
BucketOf(buckets, key) ==
    LET at == {k \in 1..Len(buckets) : buckets[k][1] = key}
    IN IF at = {} THEN <<>> ELSE buckets[SetMin(at)][2]

\* Round 1 over structure.sections (pipeline.py:366-377)
RECURSIVE RoundOne(_, _, _)
RoundOne(buckets, i, chunks) ==
    IF i > Len(sections) THEN chunks
    ELSE IF sections[i].is_front_matter THEN RoundOne(buckets, i + 1, chunks)
    ELSE RoundOne(buckets, i + 1,
                  chunks \o extract_from_section(BucketOf(buckets, sections[i].page_start),
                                                 i, NewId(Len(chunks) + 1)))

\* variant: Round 1 without the final flush
RoundOneWithoutFinalFlush(st) ==
    [st EXCEPT !.chunks = RoundOne(section_texts, 1, st.chunks)]

\* final flush, then Round 1 (pipeline.py:362-377)
FinalFlushThenRoundOne(st) ==
    Bind(_flush_text(st), LAMBDA s1 :
        [s1 EXCEPT !.chunks = RoundOne(section_texts, 1, s1.chunks)])

\* end of the page loop to the return of run
Finish ==
    /\ InLoop
    /\ page_num = total_pages
    /\ \E st \in {FinalFlushThenRoundOne(LoopState)} : Commit(st)
    /\ pc' = "done"
    /\ run = 2 => replay_pos > Len(input_log)
    /\ UNCHANGED <<auxVars, page_num, class_section, section_texts, nblocks, last_ctype,
                   append_log, structVars, tableVars>>

PipeNext ==
    \/ StartPage
    \/ ProcessTextBlock
    \/ ProcessTableBlock
    \/ ProcessFigureBlock
    \/ ProcessBitmapBlock
    \/ Finish

Next == StructNext \/ PipeNext

Spec == Init /\ [][Next]_vars

\* a document with a section of definitions under a plural title
DefinitionDocs ==
    { [toc |-> << [level |-> 1, title |-> <<"1", "Scope">>, page |-> 1],
                  [level |-> 1, title |-> <<"2", "Definitions">>, page |-> 2] >>,
       pages |-> 2] }

DefinitionsInit == RunStart(DefinitionDocs) /\ RerunIdle

SpecDefinitions == DefinitionsInit /\ [][Next]_vars

(***************************************************************************)
(* Two runs of one IngestionPipeline object on the same document.  The     *)
(* object holds the chunkers and the classifier, which keep no state; all  *)
(* loop state is local to run (pipeline.py:147-200).                       *)
(***************************************************************************)
\* variant: the Round-1 buckets are kept on the pipeline object between runs
SectionTextsKeptOnObject(buckets) == buckets

\* section_texts: dict[int, list[str]] = {} at the start of run
SectionTextsOfNewRun(buckets) == <<>>

\* the document that is run twice: front matter, then two sections that begin
\* on the same page, the second a definition section
RerunDocs ==
    { [toc |-> << [level |-> 1, title |-> <<"Foreword">>, page |-> 1],
                  [level |-> 1, title |-> <<"1", "Scope">>, page |-> 2],
                  [level |-> 1, title |-> <<"3", "Terms">>, page |-> 2] >>,
       pages |-> 2] }

RerunInit ==
    /\ RunStart(RerunDocs)
    /\ run = 1
    /\ input_log = <<>>
    /\ replay_pos = 1
    /\ first_chunks = <<>>
    /\ id_base = 0
    /\ bucket_log = <<>>

\* the first run has returned; run is called again on the same document
RunAgain ==
    /\ run = 1
    /\ pc = "done"
    /\ run' = 2
    /\ first_chunks' = all_chunks
    /\ id_base' = id_base + Len(all_chunks)
    /\ replay_pos' = 1
    /\ bucket_log' = <<>>
    /\ sections' = <<>>
    /\ body_start' = 0
    /\ page_to_section' = <<>>
    /\ label_to_section' = <<>>
    /\ st_pc' = "build_sections"
    /\ pc' = "loop"
    /\ page_num' = 0
    /\ class_section' = 0
    /\ current_section' = 0
    /\ text_accumulator' = <<>>
    /\ text_ctype' = "text"
    /\ accum_page_start' = 1
    /\ accum_page_end' = 1
    /\ all_chunks' = <<>>
    /\ section_texts' = SectionTextsOfNewRun(section_texts)
    /\ nblocks' = 0
    /\ last_ctype' = ""
    /\ append_log' = <<>>
    /\ flush_log' = <<>>
    /\ UNCHANGED <<toc, total_pages, input_log, tableVars, idleVars>>

RerunNext == StructNext \/ PipeNext \/ RunAgain

SpecRerun == RerunInit /\ [][RerunNext]_vars

(***************************************************************************)
(* Properties of the two-level table scheme.                               *)
(***************************************************************************)
RECURSIVE ConcatRows(_, _)
ConcatRows(chunks, i) ==
    IF i > Len(chunks) THEN <<>> ELSE chunks[i].rows \o ConcatRows(chunks, i + 1)

RowGroupsDone == tb_pc = "done" /\ Len(table_chunks) > 0

OneDirectFullChunk == Len(table_chunks) = 1 /\ table_chunks[1].direct

\* C10 as claimed: the data rows of the row-group chunks, in emission order, are
\* the data rows of the directly generated full-table chunk, in the same order.
C10_RowGroupsReproduceRowsInOrder ==
    (RowGroupsDone /\ OneDirectFullChunk) =>
        ConcatRows(row_chunks, 1) = table_chunks[1].rows

\* C10 amended: the row-group rows are the full table's data rows, each once,
\* grouped by primary key: per key the rows in table order, the keys' rows
\* adjacent, the groups in order of the keys' first rows in the table.
C10_RowGroupsReproduceRowsGrouped ==
    (RowGroupsDone /\ OneDirectFullChunk) =>
        LET full == table_chunks[1].rows
            got == ConcatRows(row_chunks, 1)
            keys == {full[i][1] : i \in 1..Len(full)}
            ofKey(q, k) == SelectSeq(q, LAMBDA row : row[1] = k)
            firstIn(q, k) == SetMin({i \in 1..Len(q) : q[i][1] = k})
            lastIn(q, k) == SetMax({i \in 1..Len(q) : q[i][1] = k})
        IN /\ Len(got) = Len(full)
           /\ \A i \in 1..Len(got) : got[i][1] \in keys
           /\ \A k \in keys :
                 /\ ofKey(got, k) = ofKey(full, k)
                 /\ lastIn(got, k) - firstIn(got, k) + 1 = Len(ofKey(full, k))
           /\ \A k1, k2 \in keys :
                 firstIn(full, k1) < firstIn(full, k2)
                    => firstIn(got, k1) < firstIn(got, k2)
           /\ (\A k \in keys : lastIn(full, k) - firstIn(full, k) + 1 = Len(ofKey(full, k)))
                 => got = full

\* a table whose key column reads A, B, A was chunked both ways: the row groups
\* hold its three rows, the two A rows side by side
C10_Witness ==
    /\ RowGroupsDone
    /\ OneDirectFullChunk
    /\ Len(table_chunks[1].rows) = 3
    /\ table_chunks[1].rows[1][1] = "A"
    /\ table_chunks[1].rows[2][1] = "B"
    /\ table_chunks[1].rows[3][1] = "A"
    /\ Len(row_chunks) = 2
    /\ Len(row_chunks[1].rows) = 2

(***************************************************************************)
(* Properties of the section hierarchy and of the page map.                *)
(***************************************************************************)
SectionsBuilt == st_pc \in {"front_matter", "page_map", "extracted"}

\* nodes whose page range contains page p
CoveringNodes(p) ==
    {i \in 1..Len(sections) :
        sections[i].page_start <= p /\ p <= sections[i].page_end}

\* C6: the page map gives, for every page with a covering node, the covering node
\* of greatest level; among those the one with the latest page_start; among those
\* the last in TOC order.  For the tie-break scenario page 22 resolves to
\* "3 Terms and definitions".
C6_DeepestLatestLast ==
    st_pc = "extracted" =>
        /\ \A p \in 1..total_pages :
              CoveringNodes(p) # {} =>
                LET r == page_to_section[p]
                IN /\ r \in CoveringNodes(p)
                   /\ \A j \in CoveringNodes(p) :
                         /\ sections[j].level <= sections[r].level
                         /\ sections[j].level = sections[r].level =>
                               /\ sections[j].page_start <= sections[r].page_start
                               /\ sections[j].page_start = sections[r].page_start
                                     => j <= r
        /\ toc = ExampleToc =>
              /\ sections[page_to_section[22]].number = "3"
              /\ sections[page_to_section[22]].title = <<"Terms", "and", "definitions">>

\* a page with two covering nodes of the same level and page_start was resolved,
\* and the scenario's page 22 was resolved to its third entry
C6_Witness ==
    /\ st_pc = "extracted"
    /\ toc = ExampleToc
    /\ page_to_section[22] = 3
    /\ {1, 2, 3} \subseteq CoveringNodes(22)

\* C7: every page of the document resolves to one node or to none, and to none
\* only if the page lies before the page of every table-of-contents entry.
C7_NoGapAfterFirstEntry ==
    st_pc = "extracted" =>
        \A p \in 1..total_pages :
            /\ page_to_section[p] \in 0..Len(sections)
            /\ page_to_section[p] = 0 => \A i \in 1..Len(toc) : p < toc[i].page

\* a table of contents with entries out of page order and of mixed levels, with an
\* unmapped page before it and a nested entry ending before a later page
C7_Witness ==
    /\ st_pc = "extracted"
    /\ Len(toc) >= 3
    /\ page_to_section[1] = 0
    /\ \E i \in 1..(Len(toc) - 1) :
          toc[i].page > toc[i + 1].page /\ toc[i].level > toc[i + 1].level
    /\ \E p \in 1..total_pages : page_to_section[p] # 0

\* C8 as claimed: page_end >= page_start for every node, whatever the table of
\* contents and the page count.
C8_PageEndAtLeastStart ==
    SectionsBuilt =>
        \A i \in 1..Len(sections) : sections[i].page_end >= sections[i].page_start

\* C9 as claimed: page_end is the page_start of the next node at the same or a
\* shallower level, minus 1, or the last page when no such node follows.
C9_PageEndIsNextStartMinusOne ==
    SectionsBuilt =>
        \A i \in 1..Len(sections) :
            LET later == {j \in (i + 1)..Len(sections) :
                            sections[j].level <= sections[i].level}
            IN IF later = {}
               THEN sections[i].page_end = total_pages
               ELSE \E j \in later :
                      /\ \A k \in later : j <= k
                      /\ sections[i].page_end = sections[j].page_start - 1

\* C9 amended: page_end is that value, but never less than the node's own
\* page_start when such a node follows.
C9_PageEndClamped ==
    SectionsBuilt =>
        \A i \in 1..Len(sections) :
            LET later == {j \in (i + 1)..Len(sections) :
                            sections[j].level <= sections[i].level}
            IN IF later = {}
               THEN sections[i].page_end = total_pages
               ELSE \E j \in later :
                      /\ \A k \in later : j <= k
                      /\ sections[i].page_end =
                            IF sections[j].page_start - 1 >= sections[i].page_start
                            THEN sections[j].page_start - 1
                            ELSE sections[i].page_start

\* a node followed by a deeper node and then by a sibling on its own page (the
\* clamp acts), and a node whose sibling starts on a later page
C9_Witness ==
    /\ SectionsBuilt
    /\ \E i, j \in 1..Len(sections) :
          /\ j > i + 1
          /\ sections[i + 1].level > sections[i].level
          /\ sections[j].level = sections[i].level
          /\ sections[j].page_start = sections[i].page_start
          /\ sections[i].page_end = sections[i].page_start
    /\ \E i \in 1..(Len(sections) - 1) :
          /\ sections[i + 1].level <= sections[i].level
          /\ sections[i + 1].page_start > sections[i].page_start + 1
          /\ sections[i].page_end = sections[i + 1].page_start - 1

(***************************************************************************)
(* classifier.py: BlockClassifier.classify_page on one page model.  A      *)
(* block is a record of its kind, its bbox <<x0, y0, x1, y1>> and, for a   *)
(* text block, its text; the page lists (table_blocks, drawing_clusters,   *)
(* image_blocks, text_blocks) are the blocks of one kind in arrival order. *)
(***************************************************************************)
\* padding of _covered_by_table, in points
TablePadding == 2

\* _covered_by_table: the centre of bbox lies in a table region widened by the
\* padding (the centre's coordinates are kept doubled)
_covered_by_table(bbox, table_bboxes) ==
    \E t \in 1..Len(table_bboxes) :
        /\ 2 * (table_bboxes[t][1] - TablePadding) <= bbox[1] + bbox[3]
        /\ bbox[1] + bbox[3] <= 2 * (table_bboxes[t][3] + TablePadding)
        /\ 2 * (table_bboxes[t][2] - TablePadding) <= bbox[2] + bbox[4]
        /\ bbox[2] + bbox[4] <= 2 * (table_bboxes[t][4] + TablePadding)

\* the positions in the page of the blocks of one kind, in arrival order
RECURSIVE BlocksOfKind(_, _, _)
BlocksOfKind(page, kind, i) ==
    IF i > Len(page) THEN <<>>
    ELSE IF page[i].kind = kind THEN <<i>> \o BlocksOfKind(page, kind, i + 1)
    ELSE BlocksOfKind(page, kind, i + 1)

\* _top_y of a ClassifiedBlock
_top_y(b) == b.bbox[2]

\* variant: the results are left in the order the page lists were walked
Unsorted(results, i, sorted) == results

\* list.sort(key=_top_y): stable, an element goes behind the elements already
\* placed whose key is not larger
RECURSIVE SortByTopY(_, _, _)
SortByTopY(results, i, sorted) ==
    IF i > Len(results) THEN sorted
    ELSE LET n == Cardinality({k \in 1..Len(sorted) : _top_y(sorted[k]) <= _top_y(results[i])})
         IN SortByTopY(results, i + 1,
                       SubSeq(sorted, 1, n) \o <<results[i]>> \o SubSeq(sorted, n + 1, Len(sorted)))

\* the text blocks that classify_page keeps
UncoveredText(page, table_bboxes) ==
    SelectSeq(BlocksOfKind(page, "text", 1),
              LAMBDA i : ~_covered_by_table(page[i].bbox, table_bboxes))

\* BlockClassifier.classify_page
classify_page(page, title) ==
    LET tables == BlocksOfKind(page, "table", 1)
        table_bboxes == [t \in 1..Len(tables) |-> page[tables[t]].bbox]
        is_definition_section == Len(title) > 0 /\ TitleHasDefinitionKeyword(title)
        mk(i, ctype) == [content_type |-> ctype, block |-> i, bbox |-> page[i].bbox]
        drawings == BlocksOfKind(page, "drawing", 1)
        images == BlocksOfKind(page, "image", 1)
        texts == UncoveredText(page, table_bboxes)
        results ==
            [k \in 1..Len(tables) |-> mk(tables[k], "table")]
            \o [k \in 1..Len(drawings) |-> mk(drawings[k], "figure")]
            \o [k \in 1..Len(images) |-> mk(images[k], "bitmap")]
            \o [k \in 1..Len(texts) |->
                  mk(texts[k], _classify_text_block(page[texts[k]].text,
                                                    is_definition_section))]
    IN SortByTopY(results, 1, <<>>)

\* the blocks a page may hold: a table, a drawing and an image; text inside the
\* table, text whose centre lies on the padded table edge, text just below it,
\* register text level with the drawing, and text with a bit range only
PageBlocks ==
    { [kind |-> "table",   bbox |-> <<0, 10, 100, 50>>, text |-> <<>>],
      [kind |-> "drawing", bbox |-> <<0, 60, 100, 90>>, text |-> <<>>],
      [kind |-> "image",   bbox |-> <<0, 0, 100, 8>>,   text |-> <<>>],
      [kind |-> "text",    bbox |-> <<10, 20, 90, 30>>, text |-> <<"para">>],
      [kind |-> "text",    bbox |-> <<0, 48, 100, 56>>, text |-> <<"para">>],
      [kind |-> "text",    bbox |-> <<0, 50, 100, 56>>, text |-> <<"para">>],
      [kind |-> "text",    bbox |-> <<0, 60, 40, 70>>,  text |-> <<"[7:4]", "R/W">>],
      [kind |-> "text",    bbox |-> <<50, 60, 100, 70>>, text |-> <<"[7:4]", "para">>] }

\* the section handed over: None, a plain section, a definition section
PageSectionTitles == {<<>>, <<"Scope">>, <<"Terms", "and", "definitions">>}

ClassInit ==
    /\ cl_page \in SeqsUpTo(PageBlocks, MaxPageBlocks)
    /\ cl_title \in PageSectionTitles
    /\ classified = <<>>
    /\ cl_pc = "classify"
    /\ StructIdle
    /\ TableIdle
    /\ PipeIdle
    /\ SearchIdle
    /\ RerunIdle
    /\ BatchIdle
    /\ FnIdle

ClassifyPage ==
    /\ cl_pc = "classify"
    /\ classified' = classify_page(cl_page, cl_title)
    /\ cl_pc' = "done"
    /\ UNCHANGED <<cl_page, cl_title, structVars, tableVars, pipeVars, searchVars,
                   rerunVars, batchVars, fnVars>>

ClassNext == ClassifyPage

SpecClassify == ClassInit /\ [][ClassNext]_vars

(***************************************************************************)
(* pipeline.py: IngestionResult.searchable_chunks and _is_valid_chunk.  A  *)
(* raw text is one of a few sample strings, known by its length, its       *)
(* stripped length and the noise patterns it matches.                      *)
(***************************************************************************)
\* the sample raw texts
RawTexts == {"plain100", "plain26", "  padded18  ", "Continued on next page.",
             "continued overleaf, see list", "JEDEC Standard No. 84-B51 (90 chars)"}

\* len(chunk.raw_text.strip())
StrippedLen(raw_text) ==
    CASE raw_text = "plain100"                               -> 100
      [] raw_text = "plain26"                                -> 26
      [] raw_text = "  padded18  "                           -> 18
      [] raw_text = "Continued on next page."                -> 23
      [] raw_text = "continued overleaf, see list"           -> 28
      [] raw_text = "JEDEC Standard No. 84-B51 (90 chars)"   -> 90

\* any(p.match(content) for p in _NOISE_PATTERNS): the whole content is a
\* continuation marker, or one line beginning with a watermark phrase
MatchesNoise(raw_text) ==
    raw_text \in {"Continued on next page.", "JEDEC Standard No. 84-B51 (90 chars)"}

\* _MIN_RAW_CHARS_BY_TYPE.get(content_type, 30)
_MIN_RAW_CHARS_BY_TYPE(content_type) ==
    CASE content_type = "text"       -> 20
      [] content_type = "table"      -> 80
      [] content_type = "figure"     -> 30
      [] content_type = "bitmap"     -> 30
      [] content_type = "definition" -> 8
      [] content_type = "register"   -> 40
      [] OTHER                       -> 30

_MIN_RAW_CHARS_ROW_CHUNK == 25

\* variant: row-group chunks are held to the minimum of their content type
SameMinimumForRowChunks(chunk) ==
    /\ StrippedLen(chunk.raw_text) >= _MIN_RAW_CHARS_BY_TYPE(chunk.content_type)
    /\ ~MatchesNoise(chunk.raw_text)

\* _is_valid_chunk
_is_valid_chunk(chunk) ==
    LET min_chars == IF chunk.is_row_chunk THEN _MIN_RAW_CHARS_ROW_CHUNK
                     ELSE _MIN_RAW_CHARS_BY_TYPE(chunk.content_type)
    IN /\ StrippedLen(chunk.raw_text) >= min_chars
       /\ ~MatchesNoise(chunk.raw_text)

\* any(kw in c.section_title.upper() for kw in ("CSD", "CID", "DSR", "OCR", "EXT_CSD"))
IsRegSection(section_title) ==
    section_title \in {"EXT_CSD register", "Csd fields"}

\* the test of the loop body of searchable_chunks: the chunk is kept
KeptAsSearchable(c) ==
    /\ ~c.is_front_matter
    /\ ~(c.content_type = "table" /\ ~c.is_row_chunk /\ ~IsRegSection(c.section_title))
    /\ _is_valid_chunk(c)

\* IngestionResult.searchable_chunks
searchable_chunks(chunks) == SelectSeq(chunks, KeptAsSearchable)

RawChunk(ctype, row, fm, title, raw) ==
    [content_type |-> ctype, is_row_chunk |-> row, is_front_matter |-> fm,
     section_title |-> title, raw_text |-> raw]

\* the chunks a raw list may hold: every content type and the row-group chunk
\* with every sample text in a plain body section; front-matter chunks; chunks of
\* register-map sections
RawChunks ==
    {RawChunk(k[1], k[2], FALSE, "Scope", t) :
        k \in ({"text", "table", "figure", "bitmap", "definition", "register"} \X {FALSE})
              \cup {<<"table", TRUE>>},
        t \in RawTexts}
    \cup {RawChunk(ct, FALSE, TRUE, "Foreword", "plain100") :
            ct \in {"text", "table", "figure"}}
    \cup {RawChunk("table", r, FALSE, title, t) :
            r \in BOOLEAN, title \in {"EXT_CSD register", "Csd fields"},
            t \in {"plain100", "plain26"}}

SearchInit ==
    /\ sr_chunks \in SeqsUpTo(RawChunks, MaxRawChunks)
    /\ searchable = <<>>
    /\ sr_pc = "filter"
    /\ ix_searchable = <<>>
    /\ ix_pc = "filter"
    /\ StructIdle
    /\ TableIdle
    /\ PipeIdle
    /\ ClassIdle
    /\ RerunIdle
    /\ BatchIdle
    /\ FnIdle

SearchableChunks ==
    /\ sr_pc = "filter"
    /\ searchable' = searchable_chunks(sr_chunks)
    /\ sr_pc' = "done"
    /\ UNCHANGED <<sr_chunks, ix_searchable, ix_pc, structVars, tableVars, pipeVars,
                   classVars, rerunVars, batchVars, fnVars>>

\* indexer.py: _MIN_RAW_CHARS.get(chunk.content_type, 30)
_MIN_RAW_CHARS(content_type) ==
    CASE content_type = "text"       -> 20
      [] content_type = "table"      -> 25
      [] content_type = "figure"     -> 30
      [] content_type = "bitmap"     -> 30
      [] content_type = "definition" -> 8
      [] content_type = "register"   -> 40
      [] OTHER                       -> 30

\* indexer.py: _is_searchable
_is_searchable(chunk) ==
    /\ ~chunk.is_front_matter
    /\ ~(chunk.content_type = "table" /\ ~chunk.is_row_chunk
           /\ ~IsRegSection(chunk.section_title))
    /\ StrippedLen(chunk.raw_text) >= _MIN_RAW_CHARS(chunk.content_type)

\* indexer.py, index_file: the chunks of the written list are loaded and
\* filtered
IndexFile ==
    /\ sr_pc = "done"
    /\ ix_pc = "filter"
    /\ ix_searchable' = SelectSeq(sr_chunks, _is_searchable)
    /\ ix_pc' = "done"
    /\ UNCHANGED <<sr_chunks, searchable, sr_pc, structVars, tableVars, pipeVars,
                   classVars, rerunVars, batchVars, fnVars>>

SearchNext == SearchableChunks \/ IndexFile

SpecSearch == SearchInit /\ [][SearchNext]_vars

(***************************************************************************)
(* cli.py: ingest over a batch of documents; pipeline.py: the with block   *)
(* of run; parser.py: PDFParser.__init__, pages, _parse_page and close.    *)
(* A document is known by what its file does to the two back-ends, a page  *)
(* by what each extractor is given or that the back-end call throws.       *)
(***************************************************************************)
\* what a file of the batch may be
FileKinds == {"good", "unreadable", "plumber_rejects", "bad_toc"}

\* what the back-ends give for one page: the text blocks or a throw of
\* get_text; the drawings or a throw of get_drawings; for each table found
\* whether extract() gives its rows or throws
PageInputs ==
    [text : {"text", "throws"},
     drawings : {"none", "drawing", "throws"},
     images : {"image"},
     tables : {<<>>, <<"rows">>, <<"throws">>, <<"rows", "throws">>}]

\* _extract_table_blocks: the tables appended before the first throw; the
\* except clause logs and the list built so far is returned
RECURSIVE _extract_table_blocks(_, _, _)
_extract_table_blocks(found_tables, i, tables) ==
    IF i > Len(found_tables) THEN tables
    ELSE IF found_tables[i] = "throws" THEN tables
    ELSE _extract_table_blocks(found_tables, i + 1, Append(tables, found_tables[i]))

\* _extract_drawing_clusters, when get_drawings returns
_extract_drawing_clusters(drawings) ==
    IF drawings = "none" THEN <<>> ELSE <<drawings>>

\* _parse_page raises: a throw of get_text or of get_drawings is not caught
ParsePageRaises(in) == in.text = "throws" \/ in.drawings = "throws"

\* _parse_page, when it returns
_parse_page(in) ==
    [text_blocks |-> <<in.text>>,
     drawing_clusters |-> _extract_drawing_clusters(in.drawings),
     image_blocks |-> <<in.images>>,
     table_blocks |-> _extract_table_blocks(in.tables, 1, <<>>)]

BatchInit ==
    /\ \E n \in 1..MaxBatch : bt_docs \in [1..n -> FileKinds]
    /\ bt_idx = 1
    /\ bt_pc = "loop"
    /\ bt_npages = 0
    /\ fitz_open = {}
    /\ plumber_open = {}
    /\ page_inputs = <<>>
    /\ page_models = <<>>
    /\ outputs = {}
    /\ surfaced = {}
    /\ StructIdle
    /\ TableIdle
    /\ PipeIdle
    /\ ClassIdle
    /\ SearchIdle
    /\ RerunIdle
    /\ FnIdle

BatchRest == <<structVars, tableVars, pipeVars, classVars, searchVars, rerunVars,
               fnVars>>

\* PDFParser.close, called by __exit__
CloseParser ==
    /\ fitz_open' = fitz_open \ {bt_idx}
    /\ plumber_open' = plumber_open \ {bt_idx}

\* run is entered for the next document: PDFParser.__init__ opens the file with
\* PyMuPDF, then with pdfplumber (cli.py:63-69, pipeline.py:162, parser.py:351-363)
OpenParser ==
    /\ bt_pc = "loop"
    /\ bt_idx <= Len(bt_docs)
    /\ page_inputs' = <<>>
    /\ page_models' = <<>>
    /\ IF bt_docs[bt_idx] = "unreadable"
       THEN /\ bt_pc' = "raised"
            /\ UNCHANGED <<fitz_open, plumber_open, bt_npages>>
       ELSE IF bt_docs[bt_idx] = "plumber_rejects"
       THEN /\ fitz_open' = fitz_open \cup {bt_idx}
            /\ bt_pc' = "raised"
            /\ UNCHANGED <<plumber_open, bt_npages>>
       ELSE /\ fitz_open' = fitz_open \cup {bt_idx}
            /\ plumber_open' = plumber_open \cup {bt_idx}
            /\ bt_npages' \in 1..MaxBatchPages
            /\ bt_pc' = "opened"
    /\ UNCHANGED <<bt_docs, bt_idx, outputs, surfaced, BatchRest>>

\* parser.toc and StructureExtractor.extract inside the with block
\* (pipeline.py:162-175); a throw leaves the block through __exit__
ExtractStructure ==
    /\ bt_pc = "opened"
    /\ IF bt_docs[bt_idx] = "bad_toc"
       THEN /\ CloseParser
            /\ bt_pc' = "raised"
       ELSE /\ bt_pc' = "pages"
            /\ UNCHANGED <<fitz_open, plumber_open>>
    /\ UNCHANGED <<bt_docs, bt_idx, bt_npages, page_inputs, page_models, outputs,
                   surfaced, BatchRest>>

\* one turn of the loop of PDFParser.pages (parser.py:380-385, 405-425); a
\* throw leaves the with block of run through __exit__
ParsePage ==
    /\ bt_pc = "pages"
    /\ Len(page_models) < bt_npages
    /\ \E in \in PageInputs :
          /\ page_inputs' = Append(page_inputs, in)
          /\ IF ParsePageRaises(in)
             THEN /\ CloseParser
                  /\ bt_pc' = "raised"
                  /\ UNCHANGED page_models
             ELSE /\ page_models' = Append(page_models, _parse_page(in))
                  /\ UNCHANGED <<bt_pc, fitz_open, plumber_open>>
    /\ UNCHANGED <<bt_docs, bt_idx, bt_npages, outputs, surfaced, BatchRest>>

\* all pages are parsed: the with block ends, the pages are chunked and run
\* returns (pipeline.py:178-380)
ReturnResult ==
    /\ bt_pc = "pages"
    /\ Len(page_models) = bt_npages
    /\ CloseParser
    /\ bt_pc' = "returned"
    /\ UNCHANGED <<bt_docs, bt_idx, bt_npages, page_inputs, page_models, outputs,
                   surfaced, BatchRest>>

\* the JSONL file of the document is written and the loop goes on
\* (cli.py:74-88)
WriteOutput ==
    /\ bt_pc = "returned"
    /\ outputs' = outputs \cup {bt_idx}
    /\ bt_idx' = bt_idx + 1
    /\ bt_pc' = "loop"
    /\ UNCHANGED <<bt_docs, bt_npages, fitz_open, plumber_open, page_inputs,
                   page_models, surfaced, BatchRest>>

\* except Exception: the error is echoed and typer.Exit(1) is raised
\* (cli.py:70-72)
HandleFailure ==
    /\ bt_pc = "raised"
    /\ surfaced' = surfaced \cup {bt_idx}
    /\ bt_pc' = "exit"
    /\ UNCHANGED <<bt_docs, bt_idx, bt_npages, fitz_open, plumber_open, page_inputs,
                   page_models, outputs, BatchRest>>

BatchNext ==
    \/ OpenParser
    \/ ExtractStructure
    \/ ParsePage
    \/ ReturnResult
    \/ WriteOutput
    \/ HandleFailure

SpecBatch == BatchInit /\ [][BatchNext]_vars

(***************************************************************************)
(* definition.py: DefinitionChunker.extract_inline (Round 2).  A text is   *)
(* known by the terms its matches of _INLINE_PATTERNS capture, in the      *)
(* order the two loops meet them.                                          *)
(***************************************************************************)
\* the rest of the model beside the functions checked on their own
FnRest == <<structVars, tableVars, pipeVars, classVars, searchVars, rerunVars, batchVars>>

FnRestIdle ==
    /\ StructIdle
    /\ TableIdle
    /\ PipeIdle
    /\ ClassIdle
    /\ SearchIdle
    /\ RerunIdle
    /\ BatchIdle

\* the terms a match may capture
InlineTerms == {"RPMB", "Rpmb", "CMD0"}

\* the loops of extract_inline over the matches; seen_terms starts empty in
\* every call
RECURSIVE InlineScan(_, _, _, _)
InlineScan(matches, i, seen_terms, chunks) ==
    IF i > Len(matches) THEN chunks
    ELSE IF LowerTok(matches[i]) \in seen_terms
         THEN InlineScan(matches, i + 1, seen_terms, chunks)
         ELSE InlineScan(matches, i + 1, seen_terms \cup {LowerTok(matches[i])},
                         Append(chunks, [term |-> matches[i],
                                         chunk_index |-> Len(chunks)]))

\* DefinitionChunker.extract_inline
extract_inline(matches) == InlineScan(matches, 1, {}, <<>>)

InlineInit ==
    /\ il_calls = <<>>
    /\ il_chunks = <<>>
    /\ il_pc = "run"
    /\ FnRestIdle
    /\ CleanIdle
    /\ ClusterIdle
    /\ FigureIdle

\* one call of extract_inline within the run, on the text of one page or section
ExtractInline ==
    /\ il_pc = "run"
    /\ Len(il_calls) < MaxInlineCalls
    /\ \E matches \in SeqsUpTo(InlineTerms, MaxInlineMatches) :
          /\ il_calls' = Append(il_calls, matches)
          /\ il_chunks' = il_chunks \o extract_inline(matches)
    /\ UNCHANGED <<il_pc, FnRest, cleanVars, clusterVars, figureVars>>

InlineNext == ExtractInline

SpecInline == InlineInit /\ [][InlineNext]_vars

(***************************************************************************)
(* parser.py: _clean_text.  A text is a sequence of characters: a letter,  *)
(* space, tab, newline, the two parentheses, and "wm" for one occurrence   *)
(* of the watermark e-mail address.  The Unicode map and the eMMC spelling *)
(* rules (steps 2 and 3) change none of these characters.                  *)
(***************************************************************************)
TextChars == {"a", "sp", "tab", "nl", "(", ")", "wm"}

\* \s of the regular expressions and of str.strip
IsSpaceChar(c) == c \in {"sp", "tab", "nl"}

\* step 1: pattern.sub("", text) for the watermark patterns
RemoveWatermarks(text) == SelectSeq(text, LAMBDA c : c # "wm")

\* step 4: re.sub(r"[ \t]+", " ", text)
RECURSIVE CollapseBlanks(_, _, _)
CollapseBlanks(text, i, out) ==
    IF i > Len(text) THEN out
    ELSE IF text[i] \in {"sp", "tab"}
         THEN IF i > 1 /\ text[i - 1] \in {"sp", "tab"}
              THEN CollapseBlanks(text, i + 1, out)
              ELSE CollapseBlanks(text, i + 1, Append(out, "sp"))
         ELSE CollapseBlanks(text, i + 1, Append(out, text[i]))

\* step 5: re.sub(r"\n{3,}", "\n\n", text)
RECURSIVE CollapseNewlines(_, _, _)
CollapseNewlines(text, i, out) ==
    IF i > Len(text) THEN out
    ELSE IF text[i] = "nl" /\ i > 2 /\ text[i - 1] = "nl" /\ text[i - 2] = "nl"
         THEN CollapseNewlines(text, i + 1, out)
         ELSE CollapseNewlines(text, i + 1, Append(out, text[i]))

\* end of the match of \(\s*\) that begins at i, 0 when there is none
RECURSIVE EmptyParenEnd(_, _, _)
EmptyParenEnd(text, i, j) ==
    IF j > Len(text) THEN 0
    ELSE IF text[j] = ")" THEN j
    ELSE IF IsSpaceChar(text[j]) THEN EmptyParenEnd(text, i, j + 1)
    ELSE 0

\* step 6: re.sub(r"\(\s*\)", "", text), one pass from the left
RECURSIVE RemoveEmptyParens(_, _, _)
RemoveEmptyParens(text, i, out) ==
    IF i > Len(text) THEN out
    ELSE IF text[i] = "(" /\ EmptyParenEnd(text, i, i + 1) # 0
         THEN RemoveEmptyParens(text, EmptyParenEnd(text, i, i + 1) + 1, out)
         ELSE RemoveEmptyParens(text, i + 1, Append(out, text[i]))

\* str.strip
RECURSIVE Strip(_)
Strip(text) ==
    IF text = <<>> THEN text
    ELSE IF IsSpaceChar(text[1]) THEN Strip(Tail(text))
    ELSE IF IsSpaceChar(text[Len(text)]) THEN Strip(SubSeq(text, 1, Len(text) - 1))
    ELSE text

\* _clean_text
_clean_text(text) ==
    Strip(RemoveEmptyParens(
            CollapseNewlines(
              CollapseBlanks(RemoveWatermarks(text), 1, <<>>), 1, <<>>), 1, <<>>))

CleanInit ==
    /\ ct_text \in SeqsUpTo(TextChars, MaxTextLen)
    /\ ct_result = <<>>
    /\ ct_pc = "clean"
    /\ FnRestIdle
    /\ InlineIdle
    /\ ClusterIdle
    /\ FigureIdle

CleanText ==
    /\ ct_pc = "clean"
    /\ ct_result' = _clean_text(ct_text)
    /\ ct_pc' = "done"
    /\ UNCHANGED <<ct_text, FnRest, inlineVars, clusterVars, figureVars>>

CleanNext == CleanText

SpecCleanText == CleanInit /\ [][CleanNext]_vars

(***************************************************************************)
(* parser.py: _bbox_overlaps, _merge_bboxes and _cluster_drawings.  A box  *)
(* is <<x0, y0, x1, y1>>; one pass of the while loop is one step.          *)
(***************************************************************************)
_CLUSTER_PADDING == 4

_MIN_FIGURE_AREA == 5000

\* variant: boxes are merged only when they overlap, without padding
OverlapsWithoutPadding(a, b) ==
    /\ a[1] < b[3]
    /\ a[3] > b[1]
    /\ a[2] < b[4]
    /\ a[4] > b[2]

\* _bbox_overlaps
_bbox_overlaps(a, b) ==
    /\ a[1] - _CLUSTER_PADDING < b[3]
    /\ a[3] + _CLUSTER_PADDING > b[1]
    /\ a[2] - _CLUSTER_PADDING < b[4]
    /\ a[4] + _CLUSTER_PADDING > b[2]

\* _merge_bboxes
_merge_bboxes(bboxes) ==
    << SetMin({bboxes[k][1] : k \in 1..Len(bboxes)}),
       SetMin({bboxes[k][2] : k \in 1..Len(bboxes)}),
       SetMax({bboxes[k][3] : k \in 1..Len(bboxes)}),
       SetMax({bboxes[k][4] : k \in 1..Len(bboxes)}) >>

\* the inner for loop over j, for the cluster i of the outer loop
RECURSIVE MergeInto(_, _, _, _)
MergeInto(clusters, i, j, acc) ==
    IF j > Len(clusters) THEN acc
    ELSE IF i = j \/ j \in acc.used THEN MergeInto(clusters, i, j + 1, acc)
    ELSE IF _bbox_overlaps(_merge_bboxes(acc.group), _merge_bboxes(clusters[j]))
         THEN MergeInto(clusters, i, j + 1,
                        [group |-> acc.group \o clusters[j],
                         used |-> acc.used \cup {j}, changed |-> TRUE])
         ELSE MergeInto(clusters, i, j + 1, acc)

\* the outer for loop over i: one pass of the while loop
RECURSIVE MergeLoop(_, _, _)
MergeLoop(clusters, i, pass) ==
    IF i > Len(clusters) THEN pass
    ELSE IF i \in pass.used THEN MergeLoop(clusters, i + 1, pass)
    ELSE Bind(MergeInto(clusters, i, 1,
                        [group |-> clusters[i], used |-> pass.used,
                         changed |-> pass.changed]),
              LAMBDA r :
                 MergeLoop(clusters, i + 1,
                           [merged |-> Append(pass.merged, r.group),
                            used |-> r.used \cup {i}, changed |-> r.changed]))

BoxArea(bb) == (bb[3] - bb[1]) * (bb[4] - bb[2])

\* the final loop over the clusters: those of the minimum area are returned
RECURSIVE FilterByArea(_, _, _)
FilterByArea(clusters, i, result) ==
    IF i > Len(clusters) THEN result
    ELSE Bind(_merge_bboxes(clusters[i]), LAMBDA bb :
            IF BoxArea(bb) >= _MIN_FIGURE_AREA
            THEN FilterByArea(clusters, i + 1,
                              Append(result, [bbox |-> bb, area |-> BoxArea(bb),
                                              element_count |-> Len(clusters[i])]))
            ELSE FilterByArea(clusters, i + 1, result))

\* the element boxes of a page: an L of two bars with a small box in its open
\* corner, a box 3 and a box 4 points right of the lower bar, and two large
\* boxes, one of exactly the minimum area
ElementBoxes ==
    { <<0, 0, 30, 10>>, <<0, 0, 10, 30>>, <<20, 20, 30, 30>>,
      <<33, 0, 40, 10>>, <<34, 20, 40, 30>>,
      <<100, 0, 200, 100>>, <<100, 200, 150, 300>> }

ClusterInit ==
    /\ dc_boxes \in SeqsUpTo(ElementBoxes, MaxBoxes)
    /\ dc_clusters = [k \in 1..Len(dc_boxes) |-> <<dc_boxes[k]>>]
    /\ dc_result = <<>>
    /\ dc_pc = "merge"
    /\ FnRestIdle
    /\ InlineIdle
    /\ CleanIdle
    /\ FigureIdle

\* if not raw_bboxes: return []
ReturnNoClusters ==
    /\ dc_pc = "merge"
    /\ dc_boxes = <<>>
    /\ dc_pc' = "done"
    /\ UNCHANGED <<dc_boxes, dc_clusters, dc_result, FnRest, inlineVars, cleanVars, figureVars>>

\* one pass of while changed
MergePass ==
    /\ dc_pc = "merge"
    /\ dc_boxes # <<>>
    /\ \E pass \in {MergeLoop(dc_clusters, 1,
                              [merged |-> <<>>, used |-> {}, changed |-> FALSE])} :
          /\ dc_clusters' = pass.merged
          /\ dc_pc' = IF pass.changed THEN "merge" ELSE "filter"
    /\ UNCHANGED <<dc_boxes, dc_result, FnRest, inlineVars, cleanVars, figureVars>>

\* the result list is built and returned
FilterClusters ==
    /\ dc_pc = "filter"
    /\ dc_result' = FilterByArea(dc_clusters, 1, <<>>)
    /\ dc_pc' = "done"
    /\ UNCHANGED <<dc_boxes, dc_clusters, FnRest, inlineVars, cleanVars, figureVars>>

ClusterNext == ReturnNoClusters \/ MergePass \/ FilterClusters

\* the function runs on: no step of it waits for anything
SpecCluster == ClusterInit /\ [][ClusterNext]_vars /\ WF_vars(ClusterNext)

(***************************************************************************)
(* chunkers/figure.py: _bbox_vertical_distance, _text_inside_bbox,         *)
(* _find_caption and FigureChunker.chunk_figure.  A text block is its bbox *)
(* and its text; a text is known by what _FIGURE_CAPTION_RE finds in it.   *)
(***************************************************************************)
_CAPTION_SEARCH_MARGIN == 40

\* the texts of a page's blocks
FigureTexts == {"Figure 5 - Bus timing", "see Figure 5 - Bus timing", "Figure 5", "CLK"}

\* _FIGURE_CAPTION_RE.search(text): m.group(0).strip(), "" when there is no
\* match; the pattern asks for a separator and 3 characters after the number
CaptionMatch(text) ==
    IF text \in {"Figure 5 - Bus timing", "see Figure 5 - Bus timing"}
    THEN "Figure 5 - Bus timing"
    ELSE ""

\* _bbox_vertical_distance; -1 when the boxes overlap vertically
_bbox_vertical_distance(bbox_a, bbox_b) ==
    IF bbox_a[4] <= bbox_b[2] THEN bbox_b[2] - bbox_a[4]
    ELSE IF bbox_b[4] <= bbox_a[2] THEN bbox_a[2] - bbox_b[4]
    ELSE -1

\* variant: a block counts as a label only when its whole box is inside
WholeBoxInside(text_blocks, bbox) ==
    SelectSeq(text_blocks,
              LAMBDA tb : /\ bbox[1] <= tb.bbox[1] /\ tb.bbox[3] <= bbox[3]
                          /\ bbox[2] <= tb.bbox[2] /\ tb.bbox[4] <= bbox[4])

\* _text_inside_bbox: the blocks whose centre lies inside bbox; x0 <= cx with
\* cx = (tb.bbox[0] + tb.bbox[2]) / 2 is compared as 2 * x0 <= the sum
_text_inside_bbox(text_blocks, bbox) ==
    SelectSeq(text_blocks,
              LAMBDA tb : /\ 2 * bbox[1] <= tb.bbox[1] + tb.bbox[3]
                          /\ tb.bbox[1] + tb.bbox[3] <= 2 * bbox[3]
                          /\ 2 * bbox[2] <= tb.bbox[2] + tb.bbox[4]
                          /\ tb.bbox[2] + tb.bbox[4] <= 2 * bbox[4])

\* _find_caption: the match of the nearest candidate, the first of equals
_find_caption(text_blocks, figure_bbox) ==
    LET dist(k) == _bbox_vertical_distance(figure_bbox, text_blocks[k].bbox)
        candidates == {k \in 1..Len(text_blocks) :
                          /\ 0 <= dist(k)
                          /\ dist(k) <= _CAPTION_SEARCH_MARGIN
                          /\ CaptionMatch(text_blocks[k].text) # ""}
        nearest == {k \in candidates : \A j \in candidates : dist(k) <= dist(j)}
    IN IF candidates = {} THEN ""
       ELSE CaptionMatch(text_blocks[SetMin(nearest)].text)

\* FigureChunker.chunk_figure: <<>> for None
chunk_figure(cluster, text_blocks) ==
    Bind(_find_caption(text_blocks, cluster), LAMBDA caption :
    Bind(_text_inside_bbox(text_blocks, cluster), LAMBDA labels :
        IF caption = "" /\ Len(labels) = 0 THEN <<>>
        ELSE << [content_type |-> "figure",
                 figure_caption |-> caption,
                 caption_line |-> IF caption # "" THEN caption ELSE "(no caption)",
                 labels |-> [k \in 1..Len(labels) |-> labels[k].text]] >>))

\* the box of the cluster
FigureBox == <<100, 100, 200, 200>>

\* boxes of text blocks around it: 40 and 41 above, touching its top, 10 and
\* 41 below, inside, across its right edge with the centre outside, and across
\* its right edge with the centre on the edge
TextBoxes ==
    { <<100, 50, 200, 60>>, <<100, 49, 200, 59>>, <<100, 90, 200, 100>>,
      <<100, 210, 200, 220>>, <<100, 241, 200, 251>>, <<120, 120, 180, 140>>,
      <<190, 150, 300, 160>>, <<150, 140, 250, 160>> }

FigureInit ==
    /\ fg_cluster = FigureBox
    /\ fg_texts \in SeqsUpTo([bbox : TextBoxes, text : FigureTexts], MaxFigureTexts)
    /\ fg_result = <<>>
    /\ fg_pc = "chunk"
    /\ FnRestIdle
    /\ InlineIdle
    /\ CleanIdle
    /\ ClusterIdle

ChunkFigure ==
    /\ fg_pc = "chunk"
    /\ fg_result' = chunk_figure(fg_cluster, fg_texts)
    /\ fg_pc' = "done"
    /\ UNCHANGED <<fg_cluster, fg_texts, FnRest, inlineVars, cleanVars, clusterVars>>

FigureNext == ChunkFigure

SpecFigure == FigureInit /\ [][FigureNext]_vars

(***************************************************************************)
(* Properties of the table chunker at its boundaries.                      *)
(***************************************************************************)
\* a raw row with at least one non-empty cell
NonBlankRow(row) == \E k \in 1..Len(row) : _cell(row[k]) # ""

\* a raw row that carries data: a primary key, and not a NOTE row
IsDataRow(row) ==
    /\ Len(row) > 0
    /\ _cell(row[1]) # ""
    /\ ~IsNoteCell(_cell(row[1]))

\* a raw table of one header row followed by one data row
OneHeaderOneDataRow ==
    /\ Len(table_rows) = 2
    /\ NonBlankRow(table_rows[1])
    /\ IsDataRow(table_rows[2])

\* C11: a table of one header row followed by one data row yields exactly one
\* row-group chunk.
C11_OneHeaderOneDataRowOneGroup ==
    (RowGroupsDone /\ OneHeaderOneDataRow) => Len(row_chunks) = 1

\* every row of the raw table has an empty primary key
AllKeysEmpty ==
    /\ Len(table_rows) > 0
    /\ \A i \in 1..Len(table_rows) : Len(table_rows[i]) > 0 /\ _cell(table_rows[i][1]) = ""

\* the raw rows from the second one on, cells normalised
CleanedAfterFirst ==
    [i \in 1..(Len(table_rows) - 1) |->
        [k \in 1..Len(table_rows[i + 1]) |-> _cell(table_rows[i + 1][k])]]

\* C12 as claimed: every table whose rows all have an empty primary key yields
\* exactly one row-group chunk.
C12_EmptyKeysExactlyOneGroup ==
    (RowGroupsDone /\ AllKeysEmpty) => Len(row_chunks) = 1

\* C12 amended: in a table whose rows all have an empty primary key the first row
\* is the header; the rows after it, if any, form exactly one row-group chunk, and
\* a table of a single row yields no row-group chunk.
C12_EmptyKeysOneGroupOfDataRows ==
    (RowGroupsDone /\ AllKeysEmpty) =>
        IF Len(table_rows) >= 2
        THEN /\ Len(row_chunks) = 1
             /\ row_chunks[1].key = ""
             /\ row_chunks[1].rows = CleanedAfterFirst
        ELSE row_chunks = <<>>

\* three rows without a primary key: one header, one group holding the other two
C12_Witness ==
    /\ RowGroupsDone
    /\ AllKeysEmpty
    /\ Len(table_rows) = 3
    /\ Len(row_chunks) = 1
    /\ Len(row_chunks[1].rows) = 2

\* the rows whose first cell is non-empty and of which at least half the cells
\* are non-empty
CompleteRows ==
    {i \in 1..Len(table_rows) :
        /\ _cell(table_rows[i][1]) # ""
        /\ 2 * Cardinality({k \in 1..Len(table_rows[i]) : _cell(table_rows[i][k]) # ""})
              >= Len(table_rows[i])}

\* the non-empty cells of column c in the first n raw rows, top to bottom; the
\* sequence stands for the cells joined by single spaces
RECURSIVE ColumnParts(_, _, _)
ColumnParts(c, r, n) ==
    IF r > n THEN <<>>
    ELSE IF _cell(table_rows[r][c]) # ""
         THEN <<_cell(table_rows[r][c])>> \o ColumnParts(c, r + 1, n)
         ELSE ColumnParts(c, r + 1, n)

TableChunked == tb_pc \in {"row_groups", "done"} /\ Len(table_chunks) > 0

\* what the chunks show of the pre-processing when the header zone is the first n
\* rows: the merged header, and the rows after the zone as data (body rows, with
\* only an empty primary key filled in, followed by the notes)
HeaderZoneIs(n) ==
    LET body == ConcatRows(table_chunks, 1)
        notes == table_chunks[Len(table_chunks)].notes
    IN /\ \A t \in 1..Len(table_chunks) :
             table_chunks[t].header =
                [c \in 1..Len(table_rows[1]) |-> ColumnParts(c, 1, n)]
       /\ Len(body) + Len(notes) = Len(table_rows) - n
       /\ \A i \in 1..Len(body) :
             /\ \A k \in 2..Len(body[i]) : body[i][k] = _cell(table_rows[n + i][k])
             /\ _cell(table_rows[n + i][1]) # "" => body[i][1] = _cell(table_rows[n + i][1])
       /\ \A i \in 1..Len(notes) : notes[i] = _cell(table_rows[n + Len(body) + i][1])

\* C13 as claimed: the header zone is the rows before the first complete row (all
\* rows when no row is complete), the merged header joins the zone's non-empty
\* cells per column, and the rows from the first complete row on are data.
C13_HeaderZoneBeforeFirstCompleteRow ==
    TableChunked =>
        HeaderZoneIs(IF CompleteRows = {} THEN Len(table_rows)
                     ELSE SetMin(CompleteRows) - 1)

\* C13 amended: as claimed when a complete row exists; when no row is complete
\* the header zone is the first row alone and all rows after it are data.
C13_HeaderZoneOrFirstRow ==
    TableChunked =>
        HeaderZoneIs(IF CompleteRows = {} THEN 1 ELSE SetMin(CompleteRows) - 1)

\* the command table: a header zone of three rows merged into
\* "CMD INDEX", "Type", "Argument", "Resp", "Abbr", "Desc", and one data row
C13_Witness ==
    /\ TableChunked
    /\ table_rows = ExampleTable
    /\ Len(table_chunks) = 1
    /\ table_chunks[1].header =
          << <<"CMD", "INDEX">>, <<"Type">>, <<"Argument">>, <<"Resp">>,
             <<"Abbr">>, <<"Desc">> >>
    /\ table_chunks[1].rows = << <<"CMD0", "bc", "0x0", "R1", "GO_IDLE", "reset">> >>

(***************************************************************************)
(* Properties of the page loop of IngestionPipeline.run.                   *)
(***************************************************************************)
\* the entry of the append history for block id
LogOf(id) == CHOOSE e \in {append_log[k] : k \in 1..Len(append_log)} : e.id = id

TextChunkIdx == {i \in 1..Len(all_chunks) : all_chunks[i].content_type \in {"text", "register"}}

\* C1: a step from page N to page N+1 whose resolved section is the section
\* current at the end of page N flushes nothing: accumulator and chunk list are
\* unchanged, so the text of both pages meets in the accumulator.
C1_NoFlushAtPageEnd ==
    [][ (InLoop /\ page_num' = page_num + 1
         /\ page_to_section[page_num + 1] = current_section)
        => /\ text_accumulator' = text_accumulator
           /\ all_chunks' = all_chunks
           /\ flush_log' = flush_log ]_vars

\* text of two pages lies in the accumulator, unflushed
C1_Witness ==
    /\ pc = "loop"
    /\ \E i, j \in 1..Len(text_accumulator) :
          /\ i < j
          /\ text_accumulator[i].page < text_accumulator[j].page
    /\ page_to_section[page_num] = current_section

\* C2: every block in the accumulator was appended under the present
\* current_section, and every text or register chunk carries the section that was
\* current when each of its blocks was appended (a section change flushes first).
C2_FlushBeforeSectionChange ==
    /\ \A k \in 1..Len(text_accumulator) :
          LogOf(text_accumulator[k].id).section = current_section
    /\ \A i \in TextChunkIdx :
          \A b \in 1..Len(all_chunks[i].blocks) :
             LogOf(all_chunks[i].blocks[b]).section = all_chunks[i].section

\* a mid-page switch: a text chunk of the old section was emitted and text of the
\* same page is accumulating under another section
C2_Witness ==
    /\ pc = "loop"
    /\ Len(text_accumulator) > 0
    /\ \E i \in TextChunkIdx :
          /\ all_chunks[i].section # current_section
          /\ all_chunks[i].section # 0
          /\ all_chunks[i].page_end = text_accumulator[1].page
    /\ page_to_section[page_num] # current_section

\* the chunks made from the table, drawing or image block with the given id
ChunksOfBlock(id) == {j \in 1..Len(all_chunks) : all_chunks[j].src = id}

\* C3: when a TABLE, FIGURE or BITMAP block has been handled the accumulator is
\* empty, and every chunk made from text that was accumulated before such a block
\* precedes every chunk made from that block.
C3_FlushBeforeInterruptingBlock ==
    /\ last_ctype \in {"table", "figure", "bitmap"} => text_accumulator = <<>>
    /\ \A j \in 1..Len(all_chunks) :
          all_chunks[j].src # 0 =>
             /\ \A k \in 1..Len(text_accumulator) :
                   text_accumulator[k].id > all_chunks[j].src
             /\ \A i \in TextChunkIdx :
                   (\E b \in 1..Len(all_chunks[i].blocks) :
                       all_chunks[i].blocks[b] < all_chunks[j].src) => i < j

\* text was accumulated, then a table block was handled: the text chunk precedes
\* the table's chunks and nothing is left in the accumulator
C3_Witness ==
    /\ last_ctype = "table"
    /\ nblocks >= 2
    /\ text_accumulator = <<>>
    /\ ChunksOfBlock(nblocks) # {}
    /\ \E i \in TextChunkIdx : all_chunks[i].blocks = <<nblocks - 1>>

\* C4: all blocks in the accumulator have the content type text_ctype, and the
\* chunks of a flush have the content type of every block flushed.
C4_AccumulatorOneContentType ==
    /\ text_ctype \in {"text", "register"}
    /\ \A k \in 1..Len(text_accumulator) :
          LogOf(text_accumulator[k].id).ctype = text_ctype
    /\ \A i \in TextChunkIdx :
          \A b \in 1..Len(all_chunks[i].blocks) :
             LogOf(all_chunks[i].blocks[b]).ctype = all_chunks[i].content_type

\* a register block followed a text block (or the reverse) in one section: the
\* first was flushed as a chunk of its type, the second is accumulating
C4_Witness ==
    /\ Len(text_accumulator) > 0
    /\ \E i \in TextChunkIdx :
          /\ all_chunks[i].content_type # text_ctype
          /\ all_chunks[i].section = current_section
          /\ all_chunks[i].blocks = <<text_accumulator[1].id - 1>>

\* the flushes that block id went into
FlushesOf(id) ==
    {f \in 1..Len(flush_log) :
        \E b \in 1..Len(flush_log[f].blocks) : flush_log[f].blocks[b] = id}

\* C5: every appended block is in the accumulator or went into exactly one flush,
\* once; when run returns the accumulator is empty, so every appended block was
\* flushed exactly once, and every Round-1 definition chunk comes after all
\* text, register, table, figure and bitmap chunks.
C5_FinalFlushThenDefinitions ==
    /\ \A k \in 1..Len(append_log) :
          LET id == append_log[k].id
              held == {a \in 1..Len(text_accumulator) : text_accumulator[a].id = id}
          IN /\ Cardinality(held) + Cardinality(FlushesOf(id)) = 1
             /\ \A f \in FlushesOf(id) :
                   Cardinality({b \in 1..Len(flush_log[f].blocks) :
                                   flush_log[f].blocks[b] = id}) = 1
    /\ pc = "done" =>
          /\ text_accumulator = <<>>
          /\ \A i, j \in 1..Len(all_chunks) :
                (all_chunks[i].content_type = "definition"
                 /\ all_chunks[j].content_type # "definition") => j < i

\* run returned after a final flush that emitted a text chunk, followed by a
\* Round-1 definition chunk
C5_Witness ==
    /\ pc = "done"
    /\ Len(all_chunks) >= 2
    /\ all_chunks[Len(all_chunks)].content_type = "definition"
    /\ all_chunks[Len(all_chunks) - 1].content_type = "text"
    /\ Len(flush_log) >= 1
    /\ flush_log[Len(flush_log)].at = Len(all_chunks) - 2

(***************************************************************************)
(* Properties of the chunks the pipeline makes of a table block.           *)
(***************************************************************************)
\* the table blocks handled so far, by block number
TableBlocksSeen ==
    {all_chunks[j].src : j \in {i \in 1..Len(all_chunks) :
                                   all_chunks[i].content_type = "table"}}

FullChunksOf(b) == {j \in ChunksOfBlock(b) : ~all_chunks[j].is_row_chunk}

RowChunksOf(b) == {j \in ChunksOfBlock(b) : all_chunks[j].is_row_chunk}

\* the primary keys of the data rows in the chunks J
KeysOfChunk(j) == {all_chunks[j].rows[r][1] : r \in 1..Len(all_chunks[j].rows)}

KeysIn(J) == UNION {KeysOfChunk(j) : j \in J}

\* C14: a table with a full-table chunk has one row-group chunk per distinct
\* primary key of its forward-filled data rows; every row-group chunk is marked
\* is_row_chunk and names as parent the chunk_id of a full-table chunk of the same
\* table standing earlier in the list; without a full-table chunk there is no
\* row-group chunk.
C14_RowGroupPerKeyWithParent ==
    \A b \in TableBlocksSeen :
        /\ FullChunksOf(b) = {} => RowChunksOf(b) = {}
        /\ FullChunksOf(b) # {} =>
              /\ Cardinality(RowChunksOf(b)) = Cardinality(KeysIn(FullChunksOf(b)))
              /\ \A k \in KeysIn(FullChunksOf(b)) :
                    Cardinality({j \in RowChunksOf(b) : KeysOfChunk(j) = {k}}) = 1
        /\ \A j \in RowChunksOf(b) :
              /\ all_chunks[j].content_type = "table"
              /\ \E f \in FullChunksOf(b) :
                    /\ f < j
                    /\ all_chunks[f].chunk_id = all_chunks[j].parent_chunk_id
        /\ \A f \in FullChunksOf(b) : all_chunks[f].parent_chunk_id = 0

\* a table split into several full-table chunks, followed by its two row groups,
\* one of them holding a forward-filled continuation row
C14_Witness ==
    \E b \in TableBlocksSeen :
        /\ Cardinality(FullChunksOf(b)) >= 2
        /\ Cardinality(RowChunksOf(b)) = 2
        /\ \E j \in RowChunksOf(b) : Len(all_chunks[j].rows) = 2

(***************************************************************************)
(* Properties of BlockClassifier.classify_page.                            *)
(***************************************************************************)
ClassifyDone == cl_pc = "done"

\* the entries of a result list that hold block i of the page
EntriesOf(result, i) == {k \in 1..Len(result) : result[k].block = i}

\* the bboxes of the page's tables
TableBoxesOf(page) ==
    LET tables == BlocksOfKind(page, "table", 1)
    IN [t \in 1..Len(tables) |-> page[tables[t]].bbox]

\* the content type the fixed priority gives block i of the page, "" when the
\* block is text claimed by a table
PriorityType(page, title, i) ==
    CASE page[i].kind = "table"   -> "table"
      [] page[i].kind = "drawing" -> "figure"
      [] page[i].kind = "image"   -> "bitmap"
      [] OTHER ->
           IF _covered_by_table(page[i].bbox, TableBoxesOf(page)) THEN ""
           ELSE IF \E k \in 1..Len(title) :
                      title[k] \in {"definitions", "Terms", "Glossary"} THEN "definition"
           ELSE IF (\E k \in 1..Len(page[i].text) : page[i].text[k] = "[7:4]")
                   /\ (\E k \in 1..Len(page[i].text) : page[i].text[k] = "R/W")
                THEN "register"
           ELSE "text"

\* C15: classify_page returns every table, drawing cluster and image exactly once
\* as TABLE, FIGURE, BITMAP and every text block not claimed by a table exactly
\* once as DEFINITION, REGISTER or TEXT by the fixed priority; the list is in
\* non-decreasing top y; and the type given to a block is the same for every
\* order in which the page's blocks arrive.
C15_OneTypePerBlockByPriority ==
    ClassifyDone =>
        /\ \A i \in 1..Len(cl_page) :
              IF PriorityType(cl_page, cl_title, i) = ""
              THEN EntriesOf(classified, i) = {}
              ELSE /\ Cardinality(EntriesOf(classified, i)) = 1
                   /\ \A k \in EntriesOf(classified, i) :
                         classified[k].content_type = PriorityType(cl_page, cl_title, i)
        /\ \A k \in 1..Len(classified) : classified[k].block \in 1..Len(cl_page)
        /\ \A k \in 1..(Len(classified) - 1) :
              _top_y(classified[k]) <= _top_y(classified[k + 1])
        /\ \A f \in Permutations(1..Len(cl_page)) :
              LET other == classify_page([j \in 1..Len(cl_page) |-> cl_page[f[j]]], cl_title)
              IN \A j \in 1..Len(cl_page) :
                    {other[k].content_type : k \in EntriesOf(other, j)}
                       = {classified[k].content_type : k \in EntriesOf(classified, f[j])}

\* a page whose register text arrives before the table and the image above it:
\* the list comes out as image, table, register text
C15_Witness ==
    /\ ClassifyDone
    /\ Len(cl_page) = 3
    /\ cl_page[1].kind = "text"
    /\ cl_page[2].kind = "table"
    /\ cl_page[3].kind = "image"
    /\ Len(classified) = 3
    /\ classified[1].content_type = "bitmap"
    /\ classified[2].content_type = "table"
    /\ classified[3].content_type = "register"

(***************************************************************************)
(* Properties of IngestionResult.searchable_chunks.                        *)
(***************************************************************************)
SearchDone == sr_pc = "done"

\* the positions of the raw list whose chunk meets conditions (a) to (d)
Qualifying ==
    {i \in 1..Len(sr_chunks) :
        LET c == sr_chunks[i]
        IN /\ ~c.is_front_matter
           /\ ~(c.content_type = "table" /\ ~c.is_row_chunk
                /\ c.section_title \notin {"EXT_CSD register", "Csd fields"})
           /\ StrippedLen(c.raw_text) >=
                 (IF c.content_type = "table" /\ c.is_row_chunk
                  THEN _MIN_RAW_CHARS_ROW_CHUNK
                  ELSE _MIN_RAW_CHARS_BY_TYPE(c.content_type))
           /\ c.raw_text \notin {"Continued on next page.",
                                 "JEDEC Standard No. 84-B51 (90 chars)"}}

\* the i-th smallest element of a set of positions
RECURSIVE NthOf(_, _)
NthOf(S, i) == IF i = 1 THEN SetMin(S) ELSE NthOf(S \ {SetMin(S)}, i - 1)

\* C16: searchable_chunks returns, in their original order, exactly the chunks
\* that are not front matter, are not full-table chunks outside register-map
\* sections, have a stripped raw text of at least the minimum of their content
\* type (row-group chunks: the row-group minimum) and match no noise pattern; the
\* raw chunk list is left unchanged.
C16_SearchableIsFilteredRawList ==
    /\ [](SearchDone =>
             /\ Len(searchable) = Cardinality(Qualifying)
             /\ \A i \in 1..Len(searchable) :
                    searchable[i] = sr_chunks[NthOf(Qualifying, i)])
    /\ [][sr_chunks' = sr_chunks]_vars

\* the filter has run on a list of a short row-group chunk, which it keeps, and
\* an excluded chunk
C16_Witness ==
    /\ SearchDone
    /\ Len(sr_chunks) = 2
    /\ Len(searchable) = 1
    /\ \E i \in 1..2 :
          /\ sr_chunks[i].is_row_chunk
          /\ sr_chunks[i].raw_text = "plain26"
          /\ searchable[1] = sr_chunks[i]

(***************************************************************************)
(* Properties of two runs on the same input.                               *)
(***************************************************************************)
SecondRunDone == run = 2 /\ pc = "done"

\* a chunk without its random ids
WithoutIds(c) == [c EXCEPT !.chunk_id = 0, !.parent_chunk_id = 0]

\* positions of the chunks a chunk names as its parent
ParentPositions(chunks, k) ==
    {j \in 1..Len(chunks) : chunks[j].chunk_id = chunks[k].parent_chunk_id}

\* C17: a second run of the same pipeline object on the same pages and table of
\* contents yields the same sequence of chunks as the first: each chunk has the
\* same content, section, content type and page span, and each row-group chunk
\* the same full-table chunk as parent; only the chunk_id values differ.
C17_SecondRunSameChunks ==
    SecondRunDone =>
       /\ Len(all_chunks) = Len(first_chunks)
       /\ \A k \in 1..Len(all_chunks) :
             /\ WithoutIds(all_chunks[k]) = WithoutIds(first_chunks[k])
             /\ (all_chunks[k].parent_chunk_id = 0) = (first_chunks[k].parent_chunk_id = 0)
             /\ ParentPositions(all_chunks, k) = ParentPositions(first_chunks, k)

\* both runs are done on a document with a table, whose row-group chunks have
\* a parent, and the chunk ids of the second run are new
C17_Witness ==
    /\ SecondRunDone
    /\ \E k \in 1..Len(all_chunks) :
          /\ all_chunks[k].is_row_chunk
          /\ Cardinality(ParentPositions(all_chunks, k)) = 1
    /\ \A k \in 1..Len(all_chunks), j \in 1..Len(first_chunks) :
          all_chunks[k].chunk_id # first_chunks[j].chunk_id

(***************************************************************************)
(* Properties of page extraction, the back-end handles and the batch.      *)
(***************************************************************************)
\* the run of the current document has ended
RunEnded == bt_pc \in {"returned", "raised", "exit", "loop"}

\* C18: a throw of table extraction or of drawing-cluster extraction on a page
\* does not abort the run: the page gets its model, with an empty result for the
\* extractor that threw and the results of the other extractors as they are,
\* and every page of the document is parsed.
C18_ExtractorThrowLeavesEmptyResult ==
    /\ \A p \in 1..Len(page_inputs) :
          page_inputs[p].text # "throws" =>
             /\ p <= Len(page_models)
             /\ page_models[p].text_blocks = <<page_inputs[p].text>>
             /\ page_models[p].image_blocks = <<page_inputs[p].images>>
             /\ page_models[p].drawing_clusters =
                   (IF page_inputs[p].drawings \in {"none", "throws"}
                    THEN <<>> ELSE <<page_inputs[p].drawings>>)
             /\ page_models[p].table_blocks =
                   (IF \E i \in 1..Len(page_inputs[p].tables) :
                          page_inputs[p].tables[i] = "throws"
                    THEN <<>> ELSE page_inputs[p].tables)
    /\ (bt_pc = "raised" /\ page_inputs # <<>>) =>
          page_inputs[Len(page_inputs)].text = "throws"

\* C19: once the run of a document has returned or raised, no back-end handle
\* that was opened for it is open.
C19_HandlesReleasedOnEveryExit ==
    RunEnded => fitz_open = {} /\ plumber_open = {}

\* ingest has ended: the loop is through, or typer.Exit was raised
IngestEnded == bt_pc = "exit" \/ (bt_pc = "loop" /\ bt_idx > Len(bt_docs))

\* C20: when ingest ends, every document of the batch either failed, with the
\* failure surfaced, or has its output file, whatever happened to the others.
C20_FailureAbortsOneDocumentOnly ==
    IngestEnded =>
       \A d \in 1..Len(bt_docs) :
          \/ d \in outputs
          \/ d \in surfaced /\ bt_docs[d] # "good"
          \/ d \in surfaced /\ d = bt_idx /\ page_inputs # <<>>

(***************************************************************************)
(* Properties of the Round-1 text buckets.                                 *)
(***************************************************************************)
\* the texts met while section sec was current, in document order
RECURSIVE TextsMetIn(_, _)
TextsMetIn(sec, i) ==
    IF i > Len(bucket_log) THEN <<>>
    ELSE IF bucket_log[i].section = sec
         THEN <<bucket_log[i].text>> \o TextsMetIn(sec, i + 1)
         ELSE TextsMetIn(sec, i + 1)

\* C24: the Round-1 pass of a non-front-matter section gets the bucket of that
\* section: exactly the texts met while it was the current section, in order,
\* also when several sections start on the same page.
C24_RoundOneGetsOwnBucket ==
    (run # 0 /\ pc = "done") =>
       \A sec \in 1..Len(sections) :
          ~sections[sec].is_front_matter =>
             BucketOf(section_texts, sections[sec].page_start) = TextsMetIn(sec, 1)

C23_CleanTextWhitespace ==
    ct_pc = "done" =>
       /\ ct_result # <<>> =>
             /\ ct_result[1] \notin {"sp", "tab", "nl"}
             /\ ct_result[Len(ct_result)] \notin {"sp", "tab", "nl"}
       /\ \A i \in 1..Len(ct_result) : ct_result[i] # "tab"
       /\ \A i \in 1..(Len(ct_result) - 1) :
             ~(ct_result[i] = "sp" /\ ct_result[i + 1] = "sp")
       /\ \A i \in 1..(Len(ct_result) - 2) :
             ~(ct_result[i] = "nl" /\ ct_result[i + 1] = "nl" /\ ct_result[i + 2] = "nl")

(***************************************************************************)
(* Properties of _cluster_drawings.                                        *)
(***************************************************************************)
MergeStopped == dc_pc \in {"filter", "done"} /\ dc_boxes # <<>>

\* the union box of cluster k
UnionBox(k) ==
    << SetMin({dc_clusters[k][e][1] : e \in 1..Len(dc_clusters[k])}),
       SetMin({dc_clusters[k][e][2] : e \in 1..Len(dc_clusters[k])}),
       SetMax({dc_clusters[k][e][3] : e \in 1..Len(dc_clusters[k])}),
       SetMax({dc_clusters[k][e][4] : e \in 1..Len(dc_clusters[k])}) >>

\* two boxes are more than the padding apart in x or in y
Apart(a, b) ==
    \/ b[3] + _CLUSTER_PADDING <= a[1]
    \/ a[3] + _CLUSTER_PADDING <= b[1]
    \/ b[4] + _CLUSTER_PADDING <= a[2]
    \/ a[4] + _CLUSTER_PADDING <= b[2]

\* how often a box is among the elements of the clusters, and among the input
CountInClusters(b) ==
    Cardinality({ke \in (1..Len(dc_clusters)) \X (1..MaxBoxes + 1) :
                    /\ ke[2] <= Len(dc_clusters[ke[1]])
                    /\ dc_clusters[ke[1]][ke[2]] = b})

CountInInput(b) == Cardinality({k \in 1..Len(dc_boxes) : dc_boxes[k] = b})

\* the clusters of at least the minimum area, in order
LargeClusters == {k \in 1..Len(dc_clusters) :
                     (UnionBox(k)[3] - UnionBox(k)[1]) * (UnionBox(k)[4] - UnionBox(k)[2])
                        >= _MIN_FIGURE_AREA}

\* C26: clustering terminates; when the merge loop has stopped no two
\* clusters' union boxes overlap or lie within the padding of each other, every
\* input box is in exactly one cluster, and exactly the clusters of at least
\* the minimum area are returned.
C26_ClusteringTerminatesDisjoint ==
    /\ <>(dc_pc = "done")
    /\ [](MergeStopped =>
            /\ \A i, j \in 1..Len(dc_clusters) :
                  i # j => Apart(UnionBox(i), UnionBox(j))
            /\ \A b \in ElementBoxes : CountInClusters(b) = CountInInput(b)
            /\ \A k \in 1..Len(dc_clusters) : dc_clusters[k] # <<>>)
    /\ [](dc_pc = "done" =>
            /\ Len(dc_result) = Cardinality(LargeClusters)
            /\ \A r \in 1..Len(dc_result) :
                  /\ dc_result[r].bbox = UnionBox(NthOf(LargeClusters, r))
                  /\ dc_result[r].element_count = Len(dc_clusters[NthOf(LargeClusters, r)]))

\* the loop has stopped after a second pass merged the corner box into the L,
\* and a cluster of exactly the minimum area is returned while the L is not
C26_Witness ==
    /\ dc_pc = "done"
    /\ dc_boxes = << <<0, 0, 30, 10>>, <<20, 20, 30, 30>>, <<0, 0, 10, 30>> >>
    /\ Len(dc_clusters) = 1
    /\ dc_result = <<>>

(***************************************************************************)
(* Properties of the indexer's filter.                                     *)
(***************************************************************************)
\* C27: the indexer's _is_searchable is true of a chunk exactly when
\* searchable_chunks keeps that chunk: the indexer's filter of a chunk list
\* is the list searchable_chunks gives.
C27_IndexerFilterEqualsSearchable ==
    ix_pc = "done" => ix_searchable = searchable

(***************************************************************************)
(* Properties of the page range of a chunk against that of its section.    *)
(***************************************************************************)
\* C28: every text, register, table, figure or bitmap chunk attributed to
\* a section has page_start <= page_end and both within the page range
\* [page_start, page_end] of that section, whatever page-level and sub-page
\* switches came before it.
C28_ChunkPagesWithinSection ==
    \A k \in 1..Len(all_chunks) :
        (/\ all_chunks[k].section # 0
         /\ all_chunks[k].content_type \in {"text", "register", "table", "figure", "bitmap"})
        => /\ all_chunks[k].page_start <= all_chunks[k].page_end
           /\ sections[all_chunks[k].section].page_start <= all_chunks[k].page_start
           /\ all_chunks[k].page_end <= sections[all_chunks[k].section].page_end

(***************************************************************************)
(* Properties of the two tests for a definition section.                   *)
(***************************************************************************)
\* an abbreviation line as a definition section holds it
AbbrevLine == <<"ACMD:", "Application", "command">>

\* C29: whenever the classifier labels a text block of a non-front-matter
\* section DEFINITION, so that the block is kept out of the accumulator, Round 1
\* treats that section as a definition section: run on the section with an
\* abbreviation line as its text, it gives the definition chunk.
C29_DefinitionBlocksScannedByRoundOne ==
    [][(/\ nblocks' = nblocks + 1
        /\ last_ctype' = "definition"
        /\ current_section' # 0
        /\ ~sections[current_section'].is_front_matter)
       => extract_from_section(<<AbbrevLine>>, current_section', 1) # <<>>]_vars

(***************************************************************************)
(* Properties of the parent of a row-group chunk.                          *)
(***************************************************************************)
\* C30: the full-table chunk that a row-group chunk's parent_chunk_id
\* refers to holds every data row of that row group, also when the table was
\* split into several full-table chunks.
C30_ParentHoldsRowsOfGroup ==
    \A k \in 1..Len(all_chunks) :
        all_chunks[k].is_row_chunk =>
            \E p \in 1..Len(all_chunks) :
                /\ all_chunks[p].chunk_id = all_chunks[k].parent_chunk_id
                /\ ~all_chunks[p].is_row_chunk
                /\ \A r \in 1..Len(all_chunks[k].rows) :
                      \E q \in 1..Len(all_chunks[p].rows) :
                          all_chunks[p].rows[q] = all_chunks[k].rows[r]

(***************************************************************************)
(* Properties of the split of a large table.                               *)
(***************************************************************************)
\* chunk() has run on a table whose serialised form exceeds the budget
SplitDone ==
    /\ tb_pc \in {"row_groups", "done"}
    /\ Len(table_rows) > 0
    /\ ~_rows_to_markdown(table_rows).empty
    /\ PrefixLen + _rows_to_markdown(table_rows).len > _MAX_TABLE_CHARS

\* the data rows of the splits are the table's data rows in order, and a table
\* with data rows gives at least one split
SplitsHoldDataRows ==
    /\ ConcatRows(table_chunks, 1) = _preprocess_table(table_rows).body
    /\ Len(_preprocess_table(table_rows).body) > 0 => Len(table_chunks) > 0

\* every split starts with the merged header (and so its separator)
SplitsRepeatHeader ==
    \A k \in 1..Len(table_chunks) :
        table_chunks[k].header = _preprocess_table(table_rows).header

\* every split of more than one row is within the budget
LongSplitsWithinBudget ==
    \A k \in 1..Len(table_chunks) :
        Len(table_chunks[k].rows) > 1
            => PrefixLen + table_chunks[k].raw_len <= _MAX_TABLE_CHARS

\* the notes are on the last split only
NotesOnLastSplitOnly ==
    \A k \in 1..Len(table_chunks) :
        table_chunks[k].notes = IF k = Len(table_chunks)
                                THEN _preprocess_table(table_rows).notes ELSE <<>>

\* C25: when the serialised full table exceeds the character budget,
\* chunk() splits it so that the data rows of the splits, concatenated in order,
\* are the table's data rows, every split starts with the merged header and
\* separator, every split of more than one row stays within the budget, and the
\* notes are on the last split only.
C25_SplitKeepsRowsHeaderBudgetNotes ==
    SplitDone => /\ SplitsHoldDataRows
                 /\ SplitsRepeatHeader
                 /\ LongSplitsWithinBudget
                 /\ NotesOnLastSplitOnly

(***************************************************************************)
(* Properties of chunk_figure.                                             *)
(***************************************************************************)
\* a block holding a 'Figure N' caption lies above or below the box, at most
\* the search margin away
CaptionInWindow ==
    \E k \in 1..Len(fg_texts) :
        /\ fg_texts[k].text \in {"Figure 5 - Bus timing", "see Figure 5 - Bus timing"}
        /\ \/ /\ fg_texts[k].bbox[4] <= fg_cluster[2]
              /\ fg_cluster[2] - fg_texts[k].bbox[4] <= _CAPTION_SEARCH_MARGIN
           \/ /\ fg_cluster[4] <= fg_texts[k].bbox[2]
              /\ fg_texts[k].bbox[2] - fg_cluster[4] <= _CAPTION_SEARCH_MARGIN

\* the centre of a block lies inside the box
CentreInside(k) ==
    /\ 2 * fg_cluster[1] <= fg_texts[k].bbox[1] + fg_texts[k].bbox[3]
    /\ fg_texts[k].bbox[1] + fg_texts[k].bbox[3] <= 2 * fg_cluster[3]
    /\ 2 * fg_cluster[2] <= fg_texts[k].bbox[2] + fg_texts[k].bbox[4]
    /\ fg_texts[k].bbox[2] + fg_texts[k].bbox[4] <= 2 * fg_cluster[4]

====
